---- MODULE Spec2Model ----
(***************************************************************************)
(* State-machine model of the beam dynamics engine: the simulation         *)
(* controller (PhysicsEngine), the particle ensemble, the field manager    *)
(* and the lattice (Accelerator, Component).                               *)
(*                                                                         *)
(* Values.  An operator that models a function taking an object through    *)
(* several statements is written CHOOSE r \in {e : w \in {w0}} : TRUE, which *)
(* is e with w the value of the argument w0.                               *)
(*                                                                         *)
(* Numbers.  The C++ code computes in double precision; the model computes *)
(* on an integer grid.  Lengths and positions are in centimetres, so the   *)
(* hard fallback aperture of 0.1 m is 10.  Times are in ticks, with        *)
(* TicksPerSecond ticks to the wall-clock second.  A comparison of         *)
(* sqrt(x*x + y*y) with r is modelled by comparing x*x + y*y with r*r;     *)
(* a quotient that is kept (steps per second, mean energy) is the pair     *)
(* <<numerator, denominator>>.  Momentum is in units with gamma * m = 1,   *)
(* so velocity and momentum have the same components.                      *)
(***************************************************************************)
EXTENDS Integers, Sequences, FiniteSets, TLC

----------------------------------------------------------------------------
(* Bounds of the model.                                                    *)

\* largest number of particles the ensemble holds
MaxParticles == 2
\* operations that advance time are taken while stats.stepCount is below this
MaxStepCount == 3
\* Update is taken in the configuration specification while stats.stepCount
\* is below this
MaxConfigSteps == 2
\* particles are constructed while Particle::s_nextId is below this
MaxIds == 3
\* largest number of components a lattice holds in the lattice specification
MaxLatticeLen == 3
\* the positions asked of getComponentAtS are the grid values -MaxS..MaxS
MaxS == 6
\* particles a ParticleSystem is filled up to by addParticle
MaxEnsemble == 3
\* beams and particles are made while Particle::s_nextId stays within this
MaxBeamIds == 6
\* states of the random number generator of a ParticleSystem
RngModulus == 16
\* sources registered with a field manager
MaxSources == 3
\* bits of the significand of a field value
MantissaBits == 5
\* buildFODOLattice is asked for up to this many cells
MaxCells == 4
\* the builders are called while the lattice has at most this many components
MaxBuildOn == 4
\* the squares of the momentum components of the particle are quotients of
\* numbers up to this
MaxSquare == 400
\* the mutators are called on a particle this many times after it is made
MaxMutations == 3

(* Program constants.                                                      *)

\* the one-second window of updateStats, in ticks
TicksPerSecond == 2
\* the default of m_maxStepsPerFrame, 10000, scaled down
DefaultMaxStepsPerFrame == 2

\* 10 cm fallback aperture of the loss detector
FallbackAperture == 10
\* default aperture radius of a component, 0.05 m
DefaultRadius == 5

Null == 0
\* sqrt(3.0) on the grid
Sqrt3 == 2

----------------------------------------------------------------------------
(* Vectors (glm::dvec3).                                                   *)

Vec(x, y, z) == <<x, y, z>>
Zero3 == <<0, 0, 0>>
VAdd(a, b) == <<a[1] + b[1], a[2] + b[2], a[3] + b[3]>>
VSub(a, b) == <<a[1] - b[1], a[2] - b[2], a[3] - b[3]>>
VScale(a, k) == <<a[1] * k, a[2] * k, a[3] * k>>
Cross(a, b) ==
    <<a[2] * b[3] - a[3] * b[2], a[3] * b[1] - a[1] * b[3], a[1] * b[2] - a[2] * b[1]>>
Abs(n) == IF n < 0 THEN -n ELSE n

RECURSIVE SumSeq(_)
SumSeq(s) == IF s = <<>> THEN 0 ELSE Head(s) + SumSeq(Tail(s))

----------------------------------------------------------------------------
(* Field values, bounding boxes and field sources.                         *)

FieldValue(E, B) == [E |-> E, B |-> B]
ZeroField == FieldValue(Zero3, Zero3)

\* A field component is a double.  The model keeps the rounding of a double
\* sum with a significand of MantissaBits bits in place of 53: an integer
\* up to 2^MantissaBits in magnitude is a value, beyond that the values are
\* the multiples of the spacing Ulp.
RECURSIVE Ulp(_)
Ulp(m) == IF m < 2 ^ MantissaBits THEN 1 ELSE 2 * Ulp(m \div 2)

\* the value nearest to x, the one with the even significand on a tie
RoundDouble(x) ==
    LET m == Abs(x)
        u == Ulp(m)
        lo == (m \div u) * u
        r == IF 2 * (m - lo) < u THEN lo
             ELSE IF 2 * (m - lo) > u THEN lo + u
             ELSE IF (lo \div u) % 2 = 0 THEN lo ELSE lo + u
    IN  IF x < 0 THEN -r ELSE r

\* glm::dvec3 operator+ on field components
FAdd3(a, b) ==
    <<RoundDouble(a[1] + b[1]), RoundDouble(a[2] + b[2]), RoundDouble(a[3] + b[3])>>

\* FieldValue::operator+=
FieldAdd(f, g) == FieldValue(FAdd3(f.E, g.E), FAdd3(f.B, g.B))

\* A bounding box keeps its corners doubled (min2 = 2 * min), because the
\* z extent of a source is centre -/+ length / 2.
BoundingBox_contains(bb, p) ==
    /\ 2 * p[1] >= bb.min2[1] /\ 2 * p[1] <= bb.max2[1]
    /\ 2 * p[2] >= bb.min2[2] /\ 2 * p[2] <= bb.max2[2]
    /\ 2 * p[3] >= bb.min2[3] /\ 2 * p[3] <= bb.max2[3]

\* the box centre -/+ (r, r, length / 2) built by the three constructors
BoxAround(center, r, length) ==
    [infinite |-> FALSE,
     min2 |-> <<2 * (center[1] - r), 2 * (center[2] - r), 2 * center[3] - length>>,
     max2 |-> <<2 * (center[1] + r), 2 * (center[2] + r), 2 * center[3] + length>>]

\* cos of a phase counted in quarter turns
Cos4(k) == CASE k % 4 = 0 -> 1 [] k % 4 = 2 -> -1 [] OTHER -> 0

UniformBField_evaluate(s, p, t) ==
    IF ~s.bounds.infinite /\ ~BoundingBox_contains(s.bounds, p) THEN ZeroField
    ELSE FieldValue(Zero3, s.field)

QuadrupoleField_evaluate(s, p, t) ==
    LET x == p[1] - s.center[1]
        y == p[2] - s.center[2]
    IN  IF ~BoundingBox_contains(s.bounds, p) THEN ZeroField
        ELSE IF s.aperture < 0 \/ x * x + y * y > s.aperture * s.aperture THEN ZeroField
        ELSE FieldValue(Zero3, <<s.gradient * y, s.gradient * x, 0>>)

\* E_z = (V / L) * cos(omega * t + phi); frequency is in quarter turns per
\* tick and phase in quarter turns
RFField_evaluate(s, p, t) ==
    LET x == p[1] - s.center[1]
        y == p[2] - s.center[2]
    IN  IF ~BoundingBox_contains(s.bounds, p) THEN ZeroField
        ELSE IF s.aperture < 0 \/ x * x + y * y > s.aperture * s.aperture THEN ZeroField
        ELSE FieldValue(<<0, 0, (s.voltage \div s.length) * Cos4(s.frequency * t + s.phase)>>,
                        Zero3)

FieldSource_evaluate(s, p, t) ==
    CASE s.kind = "UniformB" -> UniformBField_evaluate(s, p, t)
      [] s.kind = "Quadrupole" -> QuadrupoleField_evaluate(s, p, t)
      [] s.kind = "RF" -> RFField_evaluate(s, p, t)

FieldSource_isInside(s, p) == s.bounds.infinite \/ BoundingBox_contains(s.bounds, p)

RECURSIVE EvaluateFrom_ignoresEnabled(_, _, _, _, _, _)
EvaluateFrom_ignoresEnabled(srcs, mgr, i, p, t, total0) ==
    CHOOSE r \in
        {IF i > Len(mgr) THEN total
         ELSE EvaluateFrom_ignoresEnabled(srcs, mgr, i + 1, p, t,
                  IF mgr[i] # Null /\ FieldSource_isInside(srcs[mgr[i]], p)
                  THEN FieldAdd(total, FieldSource_evaluate(srcs[mgr[i]], p, t))
                  ELSE total)
         : total \in {total0}} : TRUE

RECURSIVE EvaluateFrom(_, _, _, _, _, _)
\* the loop of evaluate from index i on, total being the sum so far.
\* srcs: the field sources on the heap; mgr: m_sources, a sequence of
\* references into srcs
EvaluateFrom(srcs, mgr, i, p, t, total0) ==
    CHOOSE r \in
        {IF i > Len(mgr) THEN total
         ELSE EvaluateFrom(srcs, mgr, i + 1, p, t,
                  IF /\ mgr[i] # Null
                     /\ srcs[mgr[i]].enabled
                     /\ FieldSource_isInside(srcs[mgr[i]], p)
                  THEN FieldAdd(total, FieldSource_evaluate(srcs[mgr[i]], p, t))
                  ELSE total)
         : total \in {total0}} : TRUE

EMFieldManager_evaluate(srcs, mgr, p, t) == EvaluateFrom(srcs, mgr, 1, p, t, ZeroField)

EMFieldManager_addSource(mgr, src) == IF src # Null THEN Append(mgr, src) ELSE mgr

\* removeSource erases the first reference equal to src
EMFieldManager_removeSource(mgr, src) ==
    LET hits == {i \in 1..Len(mgr) : mgr[i] = src}
    IN  IF hits = {} THEN mgr
        ELSE LET i == CHOOSE k \in hits : \A j \in hits : k <= j
             IN  SubSeq(mgr, 1, i - 1) \o SubSeq(mgr, i + 1, Len(mgr))

EMFieldManager_clear(mgr) == <<>>

----------------------------------------------------------------------------
(* Components.                                                             *)

Aperture(shape, rx, ry) == [shape |-> shape, radiusX |-> rx, radiusY |-> ry]

Aperture_isInside(ap, x, y) ==
    CASE ap.shape = "Circular" ->
            ap.radiusX >= 0 /\ x * x + y * y <= ap.radiusX * ap.radiusX
      [] ap.shape = "Elliptical" ->
            /\ ap.radiusX # 0 /\ ap.radiusY # 0
            /\ x * x * ap.radiusY * ap.radiusY + y * y * ap.radiusX * ap.radiusX
                 <= ap.radiusX * ap.radiusX * ap.radiusY * ap.radiusY
      [] ap.shape = "Rectangular" -> Abs(x) <= ap.radiusX /\ Abs(y) <= ap.radiusY
      [] OTHER -> TRUE

\* rotation counts quarter turns about the z axis: 0 is the identity
\* quaternion, 1 turns (x, y) into (-y, x); toLocal applies the inverse
Component_toLocal(c, globalPos) ==
    LET t == VSub(globalPos, c.position)
    IN  IF c.rotation = 0 THEN t ELSE <<t[2], -t[1], t[3]>>

Component_isInsideAperture(c, globalPos) ==
    LET local == Component_toLocal(c, globalPos)
    IN  IF local[3] < 0 \/ local[3] > c.length THEN FALSE
        ELSE Aperture_isInside(c.aperture, local[1], local[2])

\* The double s of containsS and getComponentAtS.  It is the record
\* [n, eps] for the value n + eps * e, with n on the grid and e a positive
\* double below half the spacing of the doubles at every non-zero grid
\* value; eps is 0, or n is 0 and eps is -1 or 1.  A value of the grid is
\* Double(n).
Double(n) == [n |-> n, eps |-> 0]

\* a < b
DLess(a, b) == a.n < b.n \/ (a.n = b.n /\ a.eps < b.eps)

\* the double a + g for g on the grid: the sum rounded to the nearest
\* double, which absorbs e unless the sum of the grid parts is 0
DAdd(a, g) ==
    IF a.n + g # 0 THEN Double(a.n + g) ELSE [n |-> 0, eps |-> a.eps]

\* std::fmod(a, m) for m > 0 on the grid: exact, with the sign of a
fmod(a, m) ==
    IF a.eps # 0 THEN a
    ELSE Double(IF a.n >= 0 THEN a.n % m ELSE -((-a.n) % m))

Component_containsS(c, s) ==
    /\ ~DLess(s, Double(c.sPosition))
    /\ DLess(s, Double(c.sPosition + c.length))

\* a component as its constructor leaves it
NewComponent(type, name, length, aperture, strength, frequency, phase) ==
    [type |-> type, name |-> name, length |-> length, aperture |-> aperture,
     sPosition |-> 0, position |-> Zero3, rotation |-> 0,
     strength |-> strength, frequency |-> frequency, phase |-> phase,
     fieldSource |-> Null]

\* the source a component builds from its current parameters
BuildFieldSource(c) ==
    CASE c.type = "Dipole" ->
            [kind |-> "UniformB", enabled |-> TRUE, field |-> <<0, c.strength, 0>>,
             bounds |-> BoxAround(c.position, c.aperture.radiusX, c.length)]
      [] c.type = "Quadrupole" ->
            [kind |-> "Quadrupole", enabled |-> TRUE, gradient |-> c.strength,
             center |-> c.position, length |-> c.length, aperture |-> c.aperture.radiusX,
             bounds |-> BoxAround(c.position, c.aperture.radiusX, c.length)]
      [] c.type = "RFCavity" ->
            [kind |-> "RF", enabled |-> TRUE, voltage |-> c.strength,
             frequency |-> c.frequency, phase |-> c.phase,
             center |-> c.position, length |-> c.length, aperture |-> c.aperture.radiusX,
             bounds |-> BoxAround(c.position, c.aperture.radiusX, c.length)]

HasField(c) == c.type \in {"Dipole", "Quadrupole", "RFCavity"}

\* getFieldSource on component id: the heap h = [comps, srcs] after the call
\* and the reference returned.  A BeamPipe or Detector returns null; a magnet
\* or cavity builds its source on the first call and returns the cached one
\* afterwards.
getFieldSource(h, id) ==
    LET c == h.comps[id]
    IN  IF ~HasField(c) THEN [h |-> h, src |-> Null]
        ELSE IF c.fieldSource # Null THEN [h |-> h, src |-> c.fieldSource]
        ELSE LET n == Len(h.srcs) + 1
             IN  [h |-> [comps |-> [h.comps EXCEPT ![id].fieldSource = n],
                         srcs |-> Append(h.srcs, BuildFieldSource(c))],
                  src |-> n]

\* the parameters a component has a mutator for: Dipole::setField,
\* Quadrupole::setGradient, RFCavity::setVoltage, setFrequency and setPhase
Mutable(c) ==
    CASE c.type \in {"Dipole", "Quadrupole"} -> {"strength"}
      [] c.type = "RFCavity" -> {"strength", "frequency", "phase"}
      [] OTHER -> {}

\* a parameter mutator that keeps the cached source
Component_set_keepsCache(c, member, value) == [c EXCEPT ![member] = value]

\* the parameter mutator for `member`: the member is assigned and
\* m_fieldSource is reset
Component_set(c, member, value) == [c EXCEPT ![member] = value, !.fieldSource = Null]

----------------------------------------------------------------------------
(* The lattice (Accelerator).  An accelerator is the record                *)
(* [m_components, m_latticeType, m_totalLength, m_driftCounter];           *)
(* m_components is a sequence of references to components on the heap.     *)

NewAccelerator ==
    [m_components |-> <<>>, m_latticeType |-> "Linear", m_totalLength |-> 0,
     m_driftCounter |-> 0]

RemoveAt(s, i) == SubSeq(s, 1, i - 1) \o SubSeq(s, i + 1, Len(s))
InsertAt(s, i, x) == SubSeq(s, 1, i - 1) \o <<x>> \o SubSeq(s, i, Len(s))

addComponent(a, c) ==
    IF c # Null THEN [a EXCEPT !.m_components = Append(@, c)] ELSE a

insertComponent_clamped(a, index, c) ==
    IF c # Null
    THEN [a EXCEPT !.m_components =
              InsertAt(@, (IF index <= Len(@) THEN index ELSE Len(@)) + 1, c)]
    ELSE a

\* index is the zero-based index of the code
insertComponent(a, index, c) ==
    IF c # Null /\ index <= Len(a.m_components)
    THEN [a EXCEPT !.m_components = InsertAt(@, index + 1, c)]
    ELSE a

\* removeComponent(index) that takes the total length back to 0
removeComponentAt_resetsLength(a, index) ==
    IF index < Len(a.m_components)
    THEN [a EXCEPT !.m_components = RemoveAt(@, index + 1), !.m_totalLength = 0]
    ELSE a

removeComponentAt(a, index) ==
    IF index < Len(a.m_components)
    THEN [a EXCEPT !.m_components = RemoveAt(@, index + 1)]
    ELSE a

RECURSIVE RemoveIfNamed(_, _, _)
RemoveIfNamed(comps, s, name) ==
    IF s = <<>> THEN <<>>
    ELSE IF comps[Head(s)].name = name THEN RemoveIfNamed(comps, Tail(s), name)
    ELSE <<Head(s)>> \o RemoveIfNamed(comps, Tail(s), name)

removeComponentNamed(comps, a, name) ==
    [a EXCEPT !.m_components = RemoveIfNamed(comps, @, name)]

\* getComponent(index): the reference at the index, or null
getComponentAt(a, index) ==
    IF index < Len(a.m_components) THEN a.m_components[index + 1] ELSE Null

\* getComponent(name): the first reference to a component of the name, or
\* null
getComponentNamed(comps, a, name) ==
    LET hits == {i \in 1..Len(a.m_components) : comps[a.m_components[i]].name = name}
    IN  IF hits = {} THEN Null
        ELSE a.m_components[CHOOSE i \in hits : \A j \in hits : i <= j]

Accelerator_clear(a) ==
    [a EXCEPT !.m_components = <<>>, !.m_totalLength = 0, !.m_driftCounter = 0]

\* getComponentAtS(s): the reference of the first component of the sequence
\* that contains s, or null
getComponentAtS(a, comps, s) ==
    LET wrapped == IF a.m_latticeType = "Circular" /\ a.m_totalLength > 0
                   THEN LET f == fmod(s, a.m_totalLength)
                        IN  IF DLess(f, Double(0)) THEN DAdd(f, a.m_totalLength) ELSE f
                   ELSE s
        hits == {i \in 1..Len(a.m_components) :
                    Component_containsS(comps[a.m_components[i]], wrapped)}
    IN  IF hits = {} THEN Null
        ELSE a.m_components[CHOOSE i \in hits : \A j \in hits : i <= j]

RECURSIVE SPositionsFrom(_, _, _, _)
\* the loop of updateSPositions from index i on with running sum s: the
\* components after the loop and the final s
SPositionsFrom(comps, ids, i, s) ==
    IF i > Len(ids) THEN [comps |-> comps, s |-> s]
    ELSE LET c1 == [comps EXCEPT ![ids[i]].sPosition = s]
         IN  SPositionsFrom(c1, ids, i + 1, s + c1[ids[i]].length)

\* updateSPositions: [a, comps] afterwards
updateSPositions(a, comps) ==
    LET r == SPositionsFrom(comps, a.m_components, 1, 0)
    IN  [a |-> [a EXCEPT !.m_totalLength = r.s], comps |-> r.comps]

computeLattice(a, comps) == updateSPositions(a, comps)

closeRing(a, comps) == updateSPositions([a EXCEPT !.m_latticeType = "Circular"], comps)

addDrift_counted(a, comps, length, name) ==
    LET a1 == [a EXCEPT !.m_driftCounter = @ + 1]
        comps1 == Append(comps, NewComponent("BeamPipe", "Drift_" \o ToString(a1.m_driftCounter),
                                             length,
                                             Aperture("Circular", DefaultRadius, DefaultRadius),
                                             0, 0, 0))
    IN  [a |-> addComponent(a1, Len(comps1)), comps |-> comps1]

\* addDrift(length, name): [a, comps] afterwards.  The drift is a new
\* BeamPipe with the default aperture; an empty name is replaced by a
\* counted one.
addDrift(a, comps, length, name) ==
    LET a1 == IF name = "" THEN [a EXCEPT !.m_driftCounter = @ + 1] ELSE a
        driftName == IF name = "" THEN "Drift_" \o ToString(a1.m_driftCounter) ELSE name
        comps1 == Append(comps, NewComponent("BeamPipe", driftName, length,
                                             Aperture("Circular", DefaultRadius, DefaultRadius),
                                             0, 0, 0))
    IN  [a |-> addComponent(a1, Len(comps1)), comps |-> comps1]

\* FODOCellParams as its member initializers leave it, in cm and T/m.  Cell
\* lengths are even numbers of cm, so that halving is exact on the grid as
\* it is for a double.
DefaultFODOCellParams ==
    [cellLength |-> 1000, quadLength |-> 50, quadGradient |-> 50, driftLength |-> 0,
     aperture |-> DefaultRadius]

driftLength_halfQuad(params) ==
    IF params.driftLength <= 0
    THEN (params.cellLength - params.quadLength) \div 2
    ELSE params.driftLength

\* the local driftLength of buildFODOCell
driftLength(params) ==
    IF params.driftLength <= 0
    THEN (params.cellLength - 2 * params.quadLength) \div 2
    ELSE params.driftLength

\* buildFODOCell(params, cellName): [a, comps] afterwards
buildFODOCell(a, comps, params, cellName) ==
    LET aperture == Aperture("Circular", params.aperture, params.aperture)
        comps1 == Append(comps, NewComponent("Quadrupole", cellName \o "_QF",
                                             params.quadLength, aperture,
                                             params.quadGradient, 0, 0))
        a1 == addComponent(a, Len(comps1))
        d1 == addDrift(a1, comps1, driftLength(params), cellName \o "_D1")
        comps2 == Append(d1.comps, NewComponent("Quadrupole", cellName \o "_QD",
                                                params.quadLength, aperture,
                                                -params.quadGradient, 0, 0))
        a2 == addComponent(d1.a, Len(comps2))
    IN  addDrift(a2, comps2, driftLength(params), cellName \o "_D2")

RECURSIVE CellsFrom(_, _, _, _, _)
\* the loop of buildFODOLattice from cell i (zero-based) on
CellsFrom(a0, comps0, params, i, numCells) ==
    CHOOSE r \in
        {IF i >= numCells THEN [a |-> a, comps |-> comps]
         ELSE LET b == buildFODOCell(a, comps, params, "FODO_" \o ToString(i + 1))
              IN  CellsFrom(b.a, b.comps, params, i + 1, numCells)
         : a \in {a0}, comps \in {comps0}} : TRUE

\* buildFODOLattice(params, numCells): [a, comps] afterwards
buildFODOLattice(a, comps, params, numCells) == CellsFrom(a, comps, params, 0, numCells)

RECURSIVE PopulateFrom(_, _, _, _)
\* the loop of populateFieldManager from index i on; h and mgr stand for the
\* heap and the manager's m_sources the iteration starts with
PopulateFrom(h0, ids, i, mgr0) ==
    CHOOSE r \in
        {IF i > Len(ids) THEN [h |-> h, mgr |-> mgr]
         ELSE LET g == getFieldSource(h, ids[i])
              IN  PopulateFrom(g.h, ids, i + 1,
                               IF g.src # Null THEN EMFieldManager_addSource(mgr, g.src)
                               ELSE mgr)
         : h \in {h0}, mgr \in {mgr0}} : TRUE

\* populateFieldManager: the heap (sources are built on demand) and the
\* manager's m_sources afterwards
populateFieldManager(h, a, mgr) == PopulateFrom(h, a.m_components, 1, mgr)

----------------------------------------------------------------------------
(* Particles and the ensemble.                                             *)

\* a particle as its constructor leaves it; id is the value of s_nextId
NewParticle(id, charge, pos, mom) ==
    [id |-> id, charge |-> charge, pos |-> pos, mom |-> mom, active |-> TRUE]

Dot(a, b) == a[1] * b[1] + a[2] * b[2] + a[3] * b[3]

\* kinetic energy in the units of the model (2m = 1)
getKineticEnergy(p) == Dot(p.mom, p.mom)

RECURSIVE GCD(_, _)
GCD(a, b) == IF b = 0 THEN Abs(a) ELSE GCD(b, a % Abs(b))

\* the quotient n / d (d > 0) in lowest terms
Rat(n, d) == LET g == GCD(n, d) IN <<n \div g, d \div g>>
RatZero == <<0, 1>>
RatOne == <<1, 1>>
\* sums and products of quotients in lowest terms, over the least common
\* denominator and with the common factors cancelled first
RatAdd(a, b) ==
    LET g == GCD(a[2], b[2])
    IN  Rat(a[1] * (b[2] \div g) + b[1] * (a[2] \div g), (a[2] \div g) * b[2])
RatSub(a, b) == RatAdd(a, <<-b[1], b[2]>>)
RatMul(a, b) ==
    LET x == Rat(a[1], b[2])
        y == Rat(b[1], a[2])
    IN  <<x[1] * y[1], x[2] * y[2]>>
\* a / b for b # 0
RatDiv(a, b) == Rat(a[1] * b[2] * (IF b[1] < 0 THEN -1 ELSE 1), a[2] * Abs(b[1]))
RatLess(a, b) == RatSub(a, b)[1] < 0

----------------------------------------------------------------------------
(* Particle kinematics.  Mass, c and the rest energy are the units (m = 1, *)
(* c = 1, m c^2 = 1).  A double is either NaN or a signed square root of a *)
(* rational, kept as its sign and its square, so that sqrt, products and   *)
(* quotients of the values the mutators compute are exact.                 *)

\* the factor 0.999999 of the clamp of setVelocity, on the grid of the model
ClampFactor == <<3, 5>>

NaN == [nan |-> TRUE, sign |-> 0, sq |-> RatZero]
Real(sign, sq) == [nan |-> FALSE, sign |-> IF sq = RatZero THEN 0 ELSE sign, sq |-> sq]
FromRat(q) == Real(IF q[1] < 0 THEN -1 ELSE 1, RatMul(q, q))
RealZero == Real(0, RatZero)
RealOne == Real(1, RatOne)

\* x >= y and x < y for a double x and a rational y >= 0; a comparison with
\* NaN is false
RealGeq(x, y) == ~x.nan /\ x.sign >= 0 /\ ~RatLess(x.sq, RatMul(y, y))
RealLess(x, y) == ~x.nan /\ (x.sign < 0 \/ RatLess(x.sq, RatMul(y, y)))

\* the square of glm::length(v), NaN when a component is NaN
Length2(v) ==
    IF v[1].nan \/ v[2].nan \/ v[3].nan THEN [nan |-> TRUE, sq |-> RatZero]
    ELSE [nan |-> FALSE, sq |-> RatAdd(v[1].sq, RatAdd(v[2].sq, v[3].sq))]

\* v scaled by a double whose sign and square are given
ScaleBy(v, sign, sq) ==
    [i \in 1..3 |-> IF v[i].nan THEN NaN ELSE Real(v[i].sign * sign, RatMul(v[i].sq, sq))]

NaNVector == <<NaN, NaN, NaN>>

\* relativistic::betaFromGamma: sqrt(1 - 1/gamma^2); 1/0 is infinite and
\* the square root of a negative number is NaN
betaFromGamma(gamma) ==
    IF gamma.nan \/ gamma.sq = RatZero THEN NaN
    ELSE LET x == RatSub(RatOne, RatDiv(RatOne, gamma.sq))
         IN  IF x[1] < 0 THEN NaN ELSE Real(1, x)

\* relativistic::gammaFromBeta for |beta| < 1: 1/sqrt(1 - beta^2)
gammaFromBeta(beta) == Real(1, RatDiv(RatOne, RatSub(RatOne, beta.sq)))

updateDerivedQuantities(p) ==
    LET p2 == Length2(p.m_momentum)
    IN  IF ~p2.nan /\ RatLess(RatZero, p2.sq)
        THEN LET gamma == Real(1, RatAdd(RatOne, p2.sq))
             IN  [p EXCEPT !.m_gamma = gamma, !.m_beta = betaFromGamma(gamma)]
        ELSE [p EXCEPT !.m_gamma = RealOne, !.m_beta = RealZero]

\* the kinematic part of a Particle after its constructor
NewKinematics(momentum) ==
    updateDerivedQuantities([m_momentum |-> momentum, m_gamma |-> RealOne,
                             m_beta |-> RealZero])

setMomentum(p, momentum) == updateDerivedQuantities([p EXCEPT !.m_momentum = momentum])

\* setPx, setPy, setPz for axis 1, 2, 3
setPAxis(p, axis, value) ==
    updateDerivedQuantities([p EXCEPT !.m_momentum[axis] = value])

getVelocity(p) ==
    IF ~p.m_gamma.nan /\ p.m_gamma.sign > 0
    THEN ScaleBy(p.m_momentum, 1, RatDiv(RatOne, p.m_gamma.sq))
    ELSE <<RealZero, RealZero, RealZero>>

\* setVelocity for a velocity of finite components
setVelocity(p, velocity) ==
    LET speed2 == Length2(velocity).sq
    IN  IF ~RatLess(speed2, RatOne)
        THEN LET scale2 == RatDiv(RatMul(ClampFactor, ClampFactor), speed2)
                 clampedVelocity == ScaleBy(velocity, 1, scale2)
                 beta == Real(1, Length2(clampedVelocity).sq)
                 gamma == gammaFromBeta(beta)
             IN  [m_momentum |-> ScaleBy(clampedVelocity, 1, gamma.sq),
                  m_gamma |-> gamma, m_beta |-> beta]
        ELSE IF RatLess(RatZero, speed2)
        THEN LET beta == Real(1, speed2)
                 gamma == gammaFromBeta(beta)
             IN  [m_momentum |-> ScaleBy(velocity, 1, gamma.sq),
                  m_gamma |-> gamma, m_beta |-> beta]
        ELSE [m_momentum |-> <<RealZero, RealZero, RealZero>>,
              m_gamma |-> RealOne, m_beta |-> RealZero]

\* setKineticEnergy for a kinetic energy given as a rational multiple of the
\* rest energy and a direction of finite components
setKineticEnergy(p, kineticEnergy, direction) ==
    LET gamma == FromRat(RatAdd(RatOne, kineticEnergy))
        beta == betaFromGamma(gamma)
        dirLength2 == Length2(direction).sq
        currentMag2 == Length2(p.m_momentum)
        dir == IF dirLength2 = RatZero
               THEN IF ~currentMag2.nan /\ RatLess(RatZero, currentMag2.sq)
                    THEN ScaleBy(p.m_momentum, 1, RatDiv(RatOne, currentMag2.sq))
                    ELSE <<RealZero, RealZero, RealOne>>
               ELSE ScaleBy(direction, 1, RatDiv(RatOne, dirLength2))
    IN  [m_momentum |-> IF beta.nan THEN NaNVector
                        ELSE ScaleBy(dir, gamma.sign * beta.sign,
                                     RatMul(gamma.sq, beta.sq)),
         m_gamma |-> gamma, m_beta |-> beta]

ActiveOf(ps) == SelectSeq(ps, LAMBDA p : p.active)

getActiveParticleCount(ps) == Len(ActiveOf(ps))

RECURSIVE SumEnergy(_, _)
\* the sum of getKineticEnergy(p)^k over the particles ps
SumEnergy(ps, k) ==
    IF ps = <<>> THEN 0
    ELSE (IF k = 1 THEN getKineticEnergy(Head(ps))
          ELSE getKineticEnergy(Head(ps)) * getKineticEnergy(Head(ps)))
         + SumEnergy(Tail(ps), k)

RECURSIVE SumPosition(_, _)
SumPosition(ps, axis) ==
    IF ps = <<>> THEN 0 ELSE Head(ps).pos[axis] + SumPosition(Tail(ps), axis)

\* whether the emittance loop takes the particle in: |p_z| > 1e-30
HasSlope(p) == p.mom[3] # 0

RECURSIVE EmittanceSums(_, _, _)
\* the sums of the emittance loop for the plane of `axis` (1 for x, 2 for
\* y) over the particles ps: sumX2, sumXp2 and sumXXp, with x' = p_x / p_z
\* and dPos the distance from the mean position
EmittanceSums(ps, mean, axis) ==
    IF ps = <<>> THEN [sumX2 |-> RatZero, sumXp2 |-> RatZero, sumXXp |-> RatZero]
    ELSE LET p == Head(ps)
             pz == p.mom[3]
             rest == EmittanceSums(Tail(ps), mean, axis)
         IN  IF HasSlope(p)
             THEN LET dPos == RatSub(<<p.pos[axis], 1>>, mean)
                      xp == Rat(IF pz < 0 THEN -p.mom[axis] ELSE p.mom[axis], Abs(pz))
                  IN  [sumX2 |-> RatAdd(rest.sumX2, RatMul(dPos, dPos)),
                       sumXp2 |-> RatAdd(rest.sumXp2, RatMul(xp, xp)),
                       sumXXp |-> RatAdd(rest.sumXXp, RatMul(dPos, xp))]
             ELSE rest

\* the averages of one plane with the sums divided by `divisor`, and the
\* emittance kept as its square, max(0, <x^2><x'^2> - <x x'>^2)
PlaneEmittance(active, axis, divisor) ==
    LET sums == EmittanceSums(active, Rat(SumPosition(active, axis), Len(active)), axis)
        avgX2 == RatDiv(sums.sumX2, <<divisor, 1>>)
        avgXp2 == RatDiv(sums.sumXp2, <<divisor, 1>>)
        avgXXp == RatDiv(sums.sumXXp, <<divisor, 1>>)
        det == RatSub(RatMul(avgX2, avgXp2), RatMul(avgXXp, avgXXp))
    IN  [avgX2 |-> avgX2, avgXp2 |-> avgXp2, avgXXp |-> avgXXp,
         emittance2 |-> IF det[1] < 0 THEN RatZero ELSE det]

NoEmittance ==
    [avgX2 |-> RatZero, avgXp2 |-> RatZero, avgXXp |-> RatZero, emittance2 |-> RatZero]

\* computeStatistics: the counts, meanEnergy, rmsEnergy kept as its square,
\* sum (K - mean)^2 / n, and for the planes x and y the averages of the
\* emittance and the emittance
computeStatistics(ps) ==
    LET active == ActiveOf(ps)
        n == Len(active)
        s1 == SumEnergy(active, 1)
        s2 == SumEnergy(active, 2)
    IN  IF ps = <<>> \/ n = 0
        THEN [totalParticles |-> Len(ps), activeParticles |-> 0,
              lostParticles |-> IF ps = <<>> THEN 0 ELSE Len(ps),
              meanEnergy |-> RatZero, rmsEnergy2 |-> RatZero,
              x |-> NoEmittance, y |-> NoEmittance]
        ELSE [totalParticles |-> Len(ps), activeParticles |-> n,
              lostParticles |-> Len(ps) - n,
              meanEnergy |-> Rat(s1, n), rmsEnergy2 |-> Rat(n * s2 - s1 * s1, n * n),
              x |-> PlaneEmittance(active, 1, n), y |-> PlaneEmittance(active, 2, n)]

----------------------------------------------------------------------------
(* The ensemble (ParticleSystem).  A system is the record                  *)
(* [m_particles, m_referenceMomentum, m_rng]; m_particles holds particles  *)
(* by value.  m_rng is the state of the generator: seed() sets it, every   *)
(* deviate drawn advances it, and the deviate is a function of the state.  *)
(* The generator of the model has RngModulus states; the deviates are on   *)
(* the grid, -2..2 for the normal and -1..1 for the uniform distribution.  *)

RngSeed(seed) == seed % RngModulus
RngNext(r) == (5 * r + 3) % RngModulus
normalDist(r) == (r % 5) - 2
uniformDist(r) == (r % 3) - 1

NewParticleSystem ==
    [m_particles |-> <<>>, m_referenceMomentum |-> 0, m_rng |-> RngSeed(42)]

\* the charge of createParticle(type); an unknown type is a proton
createParticle(type) ==
    CASE type \in {"Electron", "Antiproton"} -> -1
      [] OTHER -> 1

ParticleSystem_clear(ps) == [ps EXCEPT !.m_particles = <<>>]

\* addParticle stores a copy of the particle, id included
ParticleSystem_addParticle(ps, particle) ==
    [ps EXCEPT !.m_particles = Append(@, particle)]

removeInactiveParticles(ps) == [ps EXCEPT !.m_particles = ActiveOf(@)]

isWithinAperture_squares(particle, radius) ==
    particle.pos[1] * particle.pos[1] + particle.pos[2] * particle.pos[2]
        <= radius * radius

\* sqrt(x^2 + y^2) <= radius
isWithinAperture(particle, radius) ==
    /\ radius >= 0
    /\ particle.pos[1] * particle.pos[1] + particle.pos[2] * particle.pos[2]
         <= radius * radius

\* applyAperture(radius): the system afterwards and the count returned
applyAperture(ps, radius) ==
    LET lost == {i \in 1..Len(ps.m_particles) :
                    ps.m_particles[i].active /\ ~isWithinAperture(ps.m_particles[i], radius)}
    IN  [ps |-> [ps EXCEPT !.m_particles =
                     [i \in 1..Len(@) |-> IF i \in lost THEN [@[i] EXCEPT !.active = FALSE]
                                          ELSE @[i]]],
         lostCount |-> Cardinality(lost)]

\* sqrt on the squares of the grid
RECURSIVE Isqrt(_)
Isqrt(n) == IF n < 1 THEN 0 ELSE LET r == 2 * Isqrt(n \div 4)
                                 IN  IF (r + 1) * (r + 1) <= n THEN r + 1 ELSE r

Sign(x) == IF x > 0 THEN 1 ELSE IF x < 0 THEN -1 ELSE 0

\* glm::normalize of a vector along an axis
Normalize(v) == <<Sign(v[1]), Sign(v[2]), Sign(v[3])>>

\* one pass of the loop of generateBeam: the particle made from the six
\* deviates drawn from rng on, with the id the constructor hands out
BeamParticle(params, pRef, dir, rng, id) ==
    LET r1 == RngNext(rng)
        r2 == RngNext(r1)
        r3 == RngNext(r2)
        r4 == RngNext(r3)
        r5 == RngNext(r4)
        r6 == RngNext(r5)
        gaussian == params.distribution = "Gaussian"
        d == CASE gaussian ->
                    <<normalDist(r1) * params.sigmaX, normalDist(r2) * params.sigmaY,
                      normalDist(r3) * params.sigmaZ>>
               [] params.distribution = "Uniform" ->
                    <<uniformDist(r1) * params.sigmaX * Sqrt3,
                      uniformDist(r2) * params.sigmaY * Sqrt3,
                      uniformDist(r3) * params.sigmaZ * Sqrt3>>
               [] OTHER ->
                    \* r = cbrt(|u1|), theta = acos(u2), phi = u3 * pi for
                    \* deviates in -1..1: sin(phi) is 0
                    LET r == Abs(uniformDist(r1))
                        sinTheta == IF uniformDist(r2) = 0 THEN 1 ELSE 0
                        cosTheta == uniformDist(r2)
                        cosPhi == IF uniformDist(r3) = 0 THEN 1 ELSE -1
                    IN  <<r * sinTheta * cosPhi * params.sigmaX, 0,
                          r * cosTheta * params.sigmaZ>>
        dpx == IF gaussian THEN normalDist(r4) * params.sigmaPx
               ELSE uniformDist(r4) * params.sigmaPx * Sqrt3
        dpy == IF gaussian THEN normalDist(r5) * params.sigmaPy
               ELSE uniformDist(r5) * params.sigmaPy * Sqrt3
        delta == IF gaussian THEN normalDist(r6) * params.sigmaDelta
                 ELSE uniformDist(r6) * params.sigmaDelta * Sqrt3
        pMag == pRef * (1 + delta)
        perpX == IF Abs(dir[2]) < 1 THEN Normalize(Cross(dir, <<0, 1, 0>>))
                 ELSE Normalize(Cross(dir, <<1, 0, 0>>))
        perpY == Cross(dir, perpX)
        momentum == VAdd(VScale(dir, pMag),
                         VAdd(VScale(perpX, pRef * dpx), VScale(perpY, pRef * dpy)))
    IN  [particle |-> NewParticle(id, createParticle(params.particleType),
                                  VAdd(params.positionOffset, d), momentum),
         rng |-> r6]

RECURSIVE BeamFrom(_, _, _, _, _)
\* the loop of generateBeam from particle i (zero-based) on; w is
\* [ps, nextId], the system and Particle::s_nextId
BeamFrom(w0, params, pRef, dir, i) ==
    CHOOSE r \in
        {IF i >= params.numParticles THEN w
         ELSE LET b == BeamParticle(params, pRef, dir, w.ps.m_rng, w.nextId)
              IN  BeamFrom([ps |-> [w.ps EXCEPT !.m_particles = Append(@, b.particle),
                                                !.m_rng = b.rng],
                            nextId |-> w.nextId + 1],
                           params, pRef, dir, i + 1)
         : w \in {w0}} : TRUE

generateBeam_unseeded(ps, params, nextId) ==
    LET pRef == Isqrt(params.kineticEnergy)
        ps1 == [ParticleSystem_clear(ps) EXCEPT !.m_referenceMomentum = pRef]
    IN  BeamFrom([ps |-> ps1, nextId |-> nextId + 1], params, pRef,
                 Normalize(params.direction), 0)

\* generateBeam(params): [ps, nextId] afterwards.  The reference particle
\* takes an id; the reference momentum of kinetic energy K is sqrt(K) in
\* the units of the model (2m = 1).
generateBeam(ps, params, nextId) ==
    LET pRef == Isqrt(params.kineticEnergy)
        ps1 == [ParticleSystem_clear(ps) EXCEPT !.m_rng = RngSeed(params.seed),
                                               !.m_referenceMomentum = pRef]
    IN  BeamFrom([ps |-> ps1, nextId |-> nextId + 1], params, pRef,
                 Normalize(params.direction), 0)

----------------------------------------------------------------------------
(* The configuration (Config).  A Config is the record [m_simulation,      *)
(* m_window, m_render].  Times are in units of 1e-11 s, the time scale in  *)
(* units of 1e6 and the beam energy in GeV.  A configuration file is the   *)
(* record [open, wellFormed, json]: whether the file can be opened,        *)
(* whether the parser accepts its text, and the document, a record         *)
(* [simulation, window, render] of sections.  A section is the record      *)
(* [present, members, wrongType]: whether the document contains it, the    *)
(* members it gives with their values, and the members it gives with a     *)
(* value that get_to cannot convert to the type of the member.             *)

DefaultSimulationConfig ==
    [timeStep |-> 1, timeScale |-> 1, integratorType |-> 2, particleCount |-> 1000,
     beamEnergy |-> 1]
DefaultWindowConfig == [width |-> 1600, height |-> 900, vsync |-> TRUE, fullscreen |-> FALSE]
DefaultRenderConfig ==
    [wireframe |-> FALSE, showGrid |-> TRUE, showAxes |-> TRUE, particleSize |-> 2,
     colorScheme |-> 0]

SimulationKeys == <<"timeStep", "timeScale", "integratorType", "particleCount", "beamEnergy">>
WindowKeys == <<"width", "height", "vsync", "fullscreen">>
RenderKeys == <<"wireframe", "showGrid", "showAxes", "particleSize", "colorScheme">>

RECURSIVE from_json(_, _, _)
\* from_json(j, c) for the members keys, in the order of the code: each
\* member the section contains is converted into c, and a value of the
\* wrong type throws.  The result is [thrown, c].
from_json(j, c, keys) ==
    IF keys = <<>> THEN [thrown |-> FALSE, c |-> c]
    ELSE LET k == Head(keys)
         IN  IF k \in j.wrongType THEN [thrown |-> TRUE, c |-> c]
             ELSE IF k \in DOMAIN j.members
             THEN from_json(j, [c EXCEPT ![k] = j.members[k]], Tail(keys))
             ELSE from_json(j, c, Tail(keys))

NewConfig ==
    [m_simulation |-> DefaultSimulationConfig, m_window |-> DefaultWindowConfig,
     m_render |-> DefaultRenderConfig]

loadDefaults(c) == NewConfig

\* load(filepath): the Config afterwards and the value returned.  Each
\* section present is converted by get<T>(), that is by from_json into a T
\* as its member initializers leave it, and assigned; an exception ends the
\* call where it is thrown.
Config_load(c, file) ==
    IF ~file.open THEN [c |-> c, result |-> FALSE]
    ELSE IF ~file.wellFormed THEN [c |-> c, result |-> FALSE]
    ELSE LET j == file.json
             sim == from_json(j.simulation, DefaultSimulationConfig, SimulationKeys)
             c1 == IF j.simulation.present THEN [c EXCEPT !.m_simulation = sim.c] ELSE c
             win == from_json(j.window, DefaultWindowConfig, WindowKeys)
             c2 == IF j.window.present THEN [c1 EXCEPT !.m_window = win.c] ELSE c1
             ren == from_json(j.render, DefaultRenderConfig, RenderKeys)
             c3 == IF j.render.present THEN [c2 EXCEPT !.m_render = ren.c] ELSE c2
         IN  IF j.simulation.present /\ sim.thrown THEN [c |-> c, result |-> FALSE]
             ELSE IF j.window.present /\ win.thrown THEN [c |-> c1, result |-> FALSE]
             ELSE IF j.render.present /\ ren.thrown THEN [c |-> c2, result |-> FALSE]
             ELSE [c |-> c3, result |-> TRUE]

----------------------------------------------------------------------------
(* Integrators.                                                            *)

IntegratorTypes == {"Euler", "VelocityVerlet", "Boris", "RK4"}
\* an empty std::unique_ptr<Integrator>
NullIntegrator == "null"

IntegratorFactory_create(type) ==
    CASE type = "Euler" -> "Euler"
      [] type = "VelocityVerlet" -> "VelocityVerlet"
      [] type = "Boris" -> "Boris"
      [] type = "RK4" -> "RK4"
      [] OTHER -> "Boris"

\* static_cast<IntegratorFactory::Type>(n): the enumeration has int as its
\* underlying type, so every int is a value of it, named or not
Type_cast(n) ==
    CASE n = 0 -> "Euler"
      [] n = 1 -> "VelocityVerlet"
      [] n = 2 -> "Boris"
      [] n = 3 -> "RK4"
      [] OTHER -> "Type(" \o ToString(n) \o ")"

\* create(const std::string& name)
IntegratorFactory_createByName(name) ==
    IF name = "Euler" THEN IntegratorFactory_create("Euler")
    ELSE IF name = "Verlet" \/ name = "VelocityVerlet"
         THEN IntegratorFactory_create("VelocityVerlet")
    ELSE IF name = "Boris" THEN IntegratorFactory_create("Boris")
    ELSE IF name = "RK4" THEN IntegratorFactory_create("RK4")
    ELSE IntegratorFactory_create("Boris")

IntegratorStep_unguarded(kind, p, srcs, mgr, time, dt) ==
    LET field == EMFieldManager_evaluate(srcs, mgr, p.pos, time)
        force == VScale(VAdd(field.E, Cross(p.mom, field.B)), p.charge)
        newMom == VAdd(p.mom, VScale(force, dt))
    IN  [p EXCEPT !.mom = newMom, !.pos = VAdd(p.pos, VScale(newMom, dt))]

\* One step of an integrator on particle p.  Every integrator returns at
\* once on an inactive particle, evaluates the field manager at the
\* particle's position and the time it is given, and then advances
\* momentum and position by dt.  On the integer grid the advance is the
\* first-order one of EulerIntegrator (p += q (E + v x B) dt, then
\* x += v_new dt), to which the four schemes reduce up to terms in dt^2.
IntegratorStep(kind, p, srcs, mgr, time, dt) ==
    IF ~p.active THEN p
    ELSE LET field == EMFieldManager_evaluate(srcs, mgr, p.pos, time)
             force == VScale(VAdd(field.E, Cross(p.mom, field.B)), p.charge)
             newMom == VAdd(p.mom, VScale(force, dt))
         IN  [p EXCEPT !.mom = newMom, !.pos = VAdd(p.pos, VScale(newMom, dt))]

----------------------------------------------------------------------------
(* The simulation controller (PhysicsEngine).                              *)

SimulationStats0 ==
    [simulationTime |-> 0, stepCount |-> 0, stepsPerSecond |-> RatZero,
     particleCount |-> 0, lostParticleCount |-> 0,
     averageEnergy |-> RatZero, energySpread2 |-> RatZero]

\* what one call lets its caller observe besides the engine's fields:
\*   losses  the invocations of the loss callback, each with the arguments
\*           passed (args), and the lost counter at the time of the call;
\*   pushes  the calls of the integrator's step, each with particle id,
\*           time and dt;
\*   iters   for each sub-step update() executed, the accumulator and the
\*           sub-step count tested before it;
\*   exit    the accumulator and the sub-step count (stepsThisFrame) at
\*           which the loop of update() ended; n = -1 when the call did not
\*           reach the loop
NoExit == [acc |-> 0, n |-> -1]
Obs0 == [losses |-> <<>>, pushes |-> <<>>, iters |-> <<>>, exit |-> NoExit, log |-> <<>>]

\* setIntegrator
setIntegrator(e, type) ==
    [e EXCEPT !.m_integratorType = type, !.m_integrator = IntegratorFactory_create(type)]

\* the engine after its constructor; maxSteps is the default of
\* m_maxStepsPerFrame
NewEngine(maxSteps) ==
    setIntegrator(
        [m_particles |-> <<>>, m_fieldManager |-> <<>>, m_accelerator |-> Null,
         m_integrator |-> NullIntegrator, m_integratorType |-> "Boris",
         m_state |-> "Stopped", m_timeStep |-> 1, m_timeScale |-> 1,
         m_accumulatedTime |-> 0, m_currentTime |-> 0,
         m_maxStepsPerFrame |-> maxSteps,
         m_stats |-> SimulationStats0, m_lossCallback |-> "none",
         m_lastStepTime |-> 0, m_stepsThisSecond |-> 0],
        "Boris")

\* setAccelerator(acc): [e, h] afterwards, h = [comps, srcs] the heap
setAccelerator(e, h, accs, acc) ==
    LET e1 == [e EXCEPT !.m_accelerator = acc]
    IN  IF acc # Null
        THEN LET r == populateFieldManager(h, accs[acc], <<>>)
             IN  [e |-> [e1 EXCEPT !.m_fieldManager = r.mgr], h |-> r.h]
        ELSE [e |-> e1, h |-> h]

setTimeScale(e, scale) == [e EXCEPT !.m_timeScale = IF scale > 0 THEN scale ELSE 0]

\* Config::applyToEngine(engine)
applyToEngine(c, e) ==
    setIntegrator(setTimeScale([e EXCEPT !.m_timeStep = c.m_simulation.timeStep],
                               c.m_simulation.timeScale),
                  Type_cast(c.m_simulation.integratorType))

\* reset() that forgets the accumulator
reset_keepsAccumulator(e) ==
    [e EXCEPT !.m_stats = SimulationStats0,
              !.m_currentTime = 0, !.m_stepsThisSecond = 0, !.m_lastStepTime = 0,
              !.m_particles = <<>>]

reset(e) ==
    [e EXCEPT !.m_stats = SimulationStats0, !.m_accumulatedTime = 0,
              !.m_currentTime = 0, !.m_stepsThisSecond = 0, !.m_lastStepTime = 0,
              !.m_particles = <<>>]

\* start() that resets whatever the state
start_alwaysResets(e) == [reset(e) EXCEPT !.m_state = "Running"]

start(e) ==
    LET e1 == IF e.m_state = "Stopped" THEN reset(e) ELSE e
    IN  [e1 EXCEPT !.m_state = "Running"]

stop(e) == [e EXCEPT !.m_state = "Stopped"]

\* pause() without its test of the state
pause_unguarded(e) == [e EXCEPT !.m_state = "Paused"]

pause(e) == IF e.m_state = "Running" THEN [e EXCEPT !.m_state = "Paused"] ELSE e

resume(e) == IF e.m_state = "Paused" THEN [e EXCEPT !.m_state = "Running"] ELSE e

\* the loss callback called with particle p: the code passes the particle
\* and nothing else.  The callbacks a caller installs are "log", which only
\* records the call, and "stop" and "pause", which also call stop() or
\* pause() on the engine
InvokeLossCallback(w, p) ==
    IF w.e.m_lossCallback = "none" THEN w
    ELSE [w EXCEPT !.obs.losses =
              Append(@, [args |-> <<p>>, lostCount |-> w.e.m_stats.lostParticleCount]),
                   !.e = CASE w.e.m_lossCallback = "stop" -> stop(w.e)
                           [] w.e.m_lossCallback = "pause" -> pause(w.e)
                           [] OTHER -> w.e]

\* the loss test without the test that the lattice has a component
IsLost_emptyLattice(comps, ids, pos) ==
    LET insideAperture == \E i \in 1..Len(ids) : Component_isInsideAperture(comps[ids[i]], pos)
    IN  /\ ~insideAperture
        /\ pos[1] * pos[1] + pos[2] * pos[2] > FallbackAperture * FallbackAperture

\* whether checkParticleLosses finds the particle at pos lost, with the
\* component references ids of the bound lattice
IsLost(comps, ids, pos) ==
    LET insideAperture == \E i \in 1..Len(ids) : Component_isInsideAperture(comps[ids[i]], pos)
    IN  /\ ~insideAperture
        /\ ids # <<>>
        /\ pos[1] * pos[1] + pos[2] * pos[2] > FallbackAperture * FallbackAperture

RECURSIVE LossesFrom(_, _, _, _)
\* the particle loop of checkParticleLosses from index i on; w stands for
\* the engine and the calls observed when the iteration starts
LossesFrom(comps, ids, w0, i) ==
    CHOOSE r \in
        {IF i > Len(w.e.m_particles) THEN w
         ELSE LET p == w.e.m_particles[i]
              IN  IF p.active /\ IsLost(comps, ids, p.pos)
                  THEN LET w1 == [w EXCEPT !.e.m_particles[i].active = FALSE,
                                           !.e.m_stats.lostParticleCount = @ + 1]
                       IN  LossesFrom(comps, ids,
                                      InvokeLossCallback(w1, w1.e.m_particles[i]), i + 1)
                  ELSE LossesFrom(comps, ids, w, i + 1)
         : w \in {w0}} : TRUE

checkParticleLosses(h, accs, w0) ==
    CHOOSE r \in
        {IF w.e.m_accelerator = Null THEN w
         ELSE LossesFrom(h.comps, accs[w.e.m_accelerator].m_components, w, 1)
         : w \in {w0}} : TRUE

RECURSIVE IntegrateFrom(_, _, _)
\* the particle loop of step() from index i on
IntegrateFrom(h, w0, i) ==
    CHOOSE r \in
        {IF i > Len(w.e.m_particles) THEN w
         ELSE LET p == w.e.m_particles[i]
              IN  IF ~p.active THEN IntegrateFrom(h, w, i + 1)
                  ELSE IntegrateFrom(h,
                         [w EXCEPT !.e.m_particles[i] =
                                       IntegratorStep(w.e.m_integrator, p, h.srcs,
                                                      w.e.m_fieldManager, w.e.m_currentTime,
                                                      w.e.m_timeStep),
                                   !.obs.pushes =
                                       Append(@, [id |-> p.id, time |-> w.e.m_currentTime,
                                                  dt |-> w.e.m_timeStep])],
                         i + 1)
         : w \in {w0}} : TRUE

\* the end of step(): the time and the counters advance
AdvanceTime(w0) ==
    CHOOSE r \in
        {[w EXCEPT !.e.m_currentTime = w.e.m_currentTime + w.e.m_timeStep,
                   !.e.m_stats.simulationTime = w.e.m_currentTime + w.e.m_timeStep,
                   !.e.m_stats.stepCount = @ + 1,
                   !.e.m_stepsThisSecond = @ + 1]
         : w \in {w0}} : TRUE

\* step() that advances the time before it integrates
step_timeFirst(h, accs, w0) ==
    CHOOSE r \in
        {IF w.e.m_integrator = NullIntegrator THEN w
         ELSE checkParticleLosses(h, accs, IntegrateFrom(h, AdvanceTime(w), 1))
         : w \in {w0}} : TRUE

\* step(): w = [e, obs]
step(h, accs, w0) ==
    CHOOSE r \in
        {IF w.e.m_integrator = NullIntegrator THEN w
         ELSE AdvanceTime(checkParticleLosses(h, accs, IntegrateFrom(h, w, 1)))
         : w \in {w0}} : TRUE

\* updateStats that leaves the particle count as it was
updateStats_keepsCount(e0, frameTime) ==
    CHOOSE r \in
        {LET beamStats == computeStatistics(e.m_particles)
         IN  [e EXCEPT !.m_stats.averageEnergy = beamStats.meanEnergy,
                       !.m_stats.energySpread2 = beamStats.rmsEnergy2]
         : e \in {IF e0.m_lastStepTime + frameTime >= TicksPerSecond
                  THEN [e0 EXCEPT !.m_stats.stepsPerSecond =
                                      Rat(e0.m_stepsThisSecond * TicksPerSecond,
                                          e0.m_lastStepTime + frameTime),
                                  !.m_stepsThisSecond = 0, !.m_lastStepTime = 0]
                  ELSE [e0 EXCEPT !.m_lastStepTime = e0.m_lastStepTime + frameTime]}}
        : TRUE

updateStats(e0, frameTime) ==
    CHOOSE r \in
        {LET beamStats == computeStatistics(e.m_particles)
         IN  [e EXCEPT !.m_stats.particleCount = getActiveParticleCount(e.m_particles),
                       !.m_stats.averageEnergy = beamStats.meanEnergy,
                       !.m_stats.energySpread2 = beamStats.rmsEnergy2]
         : e \in {IF e0.m_lastStepTime + frameTime >= TicksPerSecond
                  THEN [e0 EXCEPT !.m_stats.stepsPerSecond =
                                      Rat(e0.m_stepsThisSecond * TicksPerSecond,
                                          e0.m_lastStepTime + frameTime),
                                  !.m_stepsThisSecond = 0, !.m_lastStepTime = 0]
                  ELSE [e0 EXCEPT !.m_lastStepTime = e0.m_lastStepTime + frameTime]}}
        : TRUE

\* the rest of an iteration that empties the accumulator
AfterSubStep_dropsAccumulator(w0, acc, n) ==
    CHOOSE r \in
        {[w EXCEPT !.e.m_accumulatedTime = 0,
                   !.obs.iters = Append(@, [acc |-> acc, n |-> n])]
         : w \in {w0}} : TRUE

\* the rest of an iteration of the loop of update() after its step(): the
\* accumulator gives up one time step; acc and n are the accumulator and
\* the sub-step count the iteration was entered with
AfterSubStep(w0, acc, n) ==
    CHOOSE r \in
        {[w EXCEPT !.e.m_accumulatedTime = @ - w.e.m_timeStep,
                   !.obs.iters = Append(@, [acc |-> acc, n |-> n])]
         : w \in {w0}} : TRUE

RECURSIVE Drain_capInclusive(_, _, _, _)
\* the loop of update() with the cap tested as stepsThisFrame <= M
Drain_capInclusive(h, accs, w0, n) ==
    CHOOSE r \in
        {IF w.e.m_accumulatedTime >= w.e.m_timeStep /\ n <= w.e.m_maxStepsPerFrame
         THEN Drain_capInclusive(h, accs,
                  AfterSubStep(step(h, accs, w), w.e.m_accumulatedTime, n), n + 1)
         ELSE [w EXCEPT !.obs.exit = [acc |-> w.e.m_accumulatedTime, n |-> n]]
         : w \in {w0}} : TRUE

RECURSIVE Drain_whileRunning(_, _, _, _)
\* the loop of update() were it to test the state before each sub-step
Drain_whileRunning(h, accs, w0, n) ==
    CHOOSE r \in
        {IF /\ w.e.m_accumulatedTime >= w.e.m_timeStep
            /\ n < w.e.m_maxStepsPerFrame
            /\ w.e.m_state = "Running"
         THEN Drain_whileRunning(h, accs,
                  AfterSubStep(step(h, accs, w), w.e.m_accumulatedTime, n), n + 1)
         ELSE [w EXCEPT !.obs.exit = [acc |-> w.e.m_accumulatedTime, n |-> n]]
         : w \in {w0}} : TRUE

RECURSIVE Drain(_, _, _, _)
\* the while loop of update() with stepsThisFrame = n
Drain(h, accs, w0, n) ==
    CHOOSE r \in
        {IF w.e.m_accumulatedTime >= w.e.m_timeStep /\ n < w.e.m_maxStepsPerFrame
         THEN Drain(h, accs,
                  AfterSubStep(step(h, accs, w), w.e.m_accumulatedTime, n), n + 1)
         ELSE [w EXCEPT !.obs.exit = [acc |-> w.e.m_accumulatedTime, n |-> n]]
         : w \in {w0}} : TRUE

\* the end of update() that keeps the accumulated time whatever it is
EndFrame_keepsBacklog(w0, frameTime) ==
    CHOOSE r \in {[w EXCEPT !.e = updateStats(w.e, frameTime)] : w \in {w0}} : TRUE

\* the end of update() after its loop: accumulated time beyond one time
\* step is dropped when the cap was reached, and the statistics are
\* published
EndFrame(w0, frameTime) ==
    CHOOSE r \in
        {[w EXCEPT !.e =
              updateStats(IF w.obs.exit.n >= w.e.m_maxStepsPerFrame
                             /\ w.e.m_accumulatedTime > w.e.m_timeStep
                          THEN [w.e EXCEPT !.m_accumulatedTime = 0]
                          ELSE w.e,
                          frameTime)]
         : w \in {w0}} : TRUE

\* update() without its test of the state
update_whenNotRunning(h, accs, w0, deltaTime) ==
    CHOOSE r \in
        {EndFrame(Drain(h, accs,
                        [w EXCEPT !.e.m_accumulatedTime = @ + deltaTime * w.e.m_timeScale],
                        0),
                  deltaTime)
         : w \in {w0}} : TRUE

\* update(deltaTime)
update(h, accs, w0, deltaTime) ==
    CHOOSE r \in
        {IF w.e.m_state # "Running" THEN w
         ELSE EndFrame(Drain(h, accs,
                             [w EXCEPT !.e.m_accumulatedTime =
                                           @ + deltaTime * w.e.m_timeScale],
                             0),
                       deltaTime)
         : w \in {w0}} : TRUE

----------------------------------------------------------------------------
(* State.                                                                  *)

VARIABLES
    engine,        \* the PhysicsEngine object: a record of its fields
    accelerators,  \* the Accelerator objects, by reference
    components,    \* the Component objects on the heap, by reference
    sources,       \* the FieldSource objects on the heap, by reference
    s_nextId,      \* Particle::s_nextId
    systems,       \* the ParticleSystem objects a caller has constructed
    config,        \* the Config object
    particle,      \* one Particle (p: its momentum and its cached gamma and
                   \* beta) and the number of mutator calls made on it
    last           \* the last call made: its name, argument and what the
                   \* caller observed of it (Obs0)

vars == <<engine, accelerators, components, sources, s_nextId, systems, config, particle,
          last>>

Heap == [comps |-> components, srcs |-> sources]
World == [e |-> engine, obs |-> Obs0]

NoCall == [op |-> "none", arg |-> Null, obs |-> Obs0]

----------------------------------------------------------------------------
(* The objects of the engine scenario: what a caller has built with the    *)
(* constructors and addComponent before it drives the engine.              *)

EngineComponents ==
    <<NewComponent("BeamPipe", "Pipe", 4, Aperture("Circular", DefaultRadius, DefaultRadius),
                   0, 0, 0),
      NewComponent("Quadrupole", "QF", 2, Aperture("Circular", DefaultRadius, DefaultRadius),
                   1, 0, 0),
      NewComponent("BeamPipe", "Wide", 4, Aperture("Rectangular", 12, 12), 0, 0, 0),
      NewComponent("RFCavity", "RF1", 2, Aperture("Elliptical", DefaultRadius, DefaultRadius),
                   2, 1, 0),
      NewComponent("Dipole", "B1", 2, Aperture("Circular", DefaultRadius, DefaultRadius),
                   1, 0, 0)>>

EngineAccelerators ==
    <<[NewAccelerator EXCEPT !.m_components = <<1, 2>>],
      [NewAccelerator EXCEPT !.m_components = <<3, 4>>],
      NewAccelerator>>

\* the particles a caller constructs and adds: charge, position, momentum
ParticleInputs ==
    {[charge |-> 1, pos |-> <<1, 0, 0>>, mom |-> <<0, 0, 1>>],
     [charge |-> 1, pos |-> <<9, 0, 0>>, mom |-> <<2, 0, 0>>]}

InitEngine ==
    /\ engine = NewEngine(DefaultMaxStepsPerFrame)
    /\ accelerators = EngineAccelerators
    /\ components = EngineComponents
    /\ sources = <<>>
    /\ s_nextId = 0
    /\ systems = <<>>
    /\ config = NewConfig
    /\ particle = [p |-> NewKinematics(<<RealZero, RealZero, RealZero>>), calls |-> 0]
    /\ last = NoCall

----------------------------------------------------------------------------
(* The calls on the engine.                                                *)

\* the state after a call that leaves engine e1 and heap h1
Returns(op, arg, e1, h1, obs) ==
    /\ engine' = e1
    /\ components' = h1.comps
    /\ sources' = h1.srcs
    /\ last' = [op |-> op, arg |-> arg, obs |-> obs]
    /\ UNCHANGED <<accelerators, s_nextId, systems, config, particle>>

\* time advances while the step counter is below its bound
MayAdvance == engine.m_stats.stepCount < MaxStepCount

Start == Returns("start", Null, start(engine), Heap, Obs0)

Stop == Returns("stop", Null, stop(engine), Heap, Obs0)

Pause == Returns("pause", Null, pause(engine), Heap, Obs0)

Resume == Returns("resume", Null, resume(engine), Heap, Obs0)

Reset == Returns("reset", Null, reset(engine), Heap, Obs0)

Step ==
    /\ MayAdvance
    /\ LET w == step(Heap, accelerators, World)
       IN  Returns("step", Null, w.e, Heap, w.obs)

Update(deltaTime) ==
    /\ MayAdvance
    /\ engine.m_accumulatedTime + deltaTime * engine.m_timeScale >= -1
    /\ engine.m_lastStepTime + deltaTime >= -1
    /\ LET w == update(Heap, accelerators, World, deltaTime)
       IN  Returns("update", deltaTime, w.e, Heap, w.obs)

SetTimeStep(dt) ==
    Returns("setTimeStep", dt, [engine EXCEPT !.m_timeStep = dt], Heap, Obs0)

SetTimeScale(scale) ==
    Returns("setTimeScale", scale, setTimeScale(engine, scale), Heap, Obs0)

SetMaxStepsPerFrame(maxSteps) ==
    Returns("setMaxStepsPerFrame", maxSteps,
            [engine EXCEPT !.m_maxStepsPerFrame = maxSteps], Heap, Obs0)

\* the one line setIntegrator logs is a PAS_DEBUG
SetIntegrator(type) ==
    Returns("setIntegrator", type, setIntegrator(engine, type), Heap,
            [Obs0 EXCEPT !.log = <<"debug">>])

\* config.applyToEngine(engine): the argument recorded is the integrator type
\* it hands to setIntegrator
ApplyToEngine ==
    Returns("applyToEngine", Type_cast(config.m_simulation.integratorType),
            applyToEngine(config, engine), Heap, [Obs0 EXCEPT !.log = <<"debug">>])

SetLossCallback(cb) ==
    Returns("setLossCallback", cb, [engine EXCEPT !.m_lossCallback = cb], Heap, Obs0)

SetAccelerator(acc) ==
    LET r == setAccelerator(engine, Heap, accelerators, acc)
    IN  Returns("setAccelerator", acc, r.e, r.h, Obs0)

\* getParticleSystem().addParticle(Particle(...)): the particle is
\* constructed, which takes the next id, and copied into the ensemble
AddParticle(in) ==
    /\ Len(engine.m_particles) < MaxParticles
    /\ s_nextId < MaxIds
    /\ engine' = [engine EXCEPT !.m_particles =
                      Append(@, NewParticle(s_nextId, in.charge, in.pos, in.mom))]
    /\ s_nextId' = s_nextId + 1
    /\ last' = [op |-> "addParticle", arg |-> in, obs |-> Obs0]
    /\ UNCHANGED <<accelerators, components, sources, systems, config, particle>>

----------------------------------------------------------------------------
(* The controller specification: the calls on the controller with its      *)
(* settings as constructed, one lattice bound or none, and up to           *)
(* MaxParticles particles.                                                 *)

DeltaTimes == {0, 1, 3}

Next ==
    \/ Start
    \/ Stop
    \/ Pause
    \/ Resume
    \/ Reset
    \/ Step
    \/ \E deltaTime \in DeltaTimes : Update(deltaTime)
    \/ \E acc \in {1} : SetAccelerator(acc)
    \/ \E in \in ParticleInputs : AddParticle(in)

Spec == InitEngine /\ [][Next]_vars

----------------------------------------------------------------------------
(* The timing specification: the frame loop under every setting of the     *)
(* time step, the time scale and the sub-step cap, with an empty ensemble.  *)

TimingDeltaTimes == {-1, 1, 3}
TimeSteps == {-1, 0, 2}
TimeScales == {-1, 2}
MaxStepsValues == {0, 1}

NextTiming ==
    \/ Start
    \/ Reset
    \/ Step
    \/ \E deltaTime \in TimingDeltaTimes : Update(deltaTime)
    \/ \E dt \in TimeSteps : SetTimeStep(dt)
    \/ \E scale \in TimeScales : SetTimeScale(scale)
    \/ \E maxSteps \in MaxStepsValues : SetMaxStepsPerFrame(maxSteps)

SpecTiming == InitEngine /\ [][NextTiming]_vars

----------------------------------------------------------------------------
(* The clock specification: time advances through update() alone, with     *)
(* positive time steps and time scales, through every state of the         *)
(* controller.                                                             *)

NextClock ==
    \/ Start
    \/ Stop
    \/ Pause
    \/ Resume
    \/ Reset
    \/ \E deltaTime \in {1, 3} : Update(deltaTime)
    \/ \E dt \in {1, 2} : SetTimeStep(dt)
    \/ \E scale \in {1, 2} : SetTimeScale(scale)

SpecClock == InitEngine /\ [][NextClock]_vars

----------------------------------------------------------------------------
(* The configuration specification: every setter of the controller is      *)
(* called, with one particle and a short run.                              *)

ConfigParticle == [charge |-> 1, pos |-> <<9, 0, 0>>, mom |-> <<2, 0, 0>>]

\* the short run: Update is taken while the step counter is below the bound
ShortRun == engine.m_stats.stepCount < MaxConfigSteps

NextConfig ==
    \/ Start
    \/ Pause
    \/ Reset
    \/ \E deltaTime \in {1} : ShortRun /\ Update(deltaTime)
    \/ \E dt \in {2} : SetTimeStep(dt)
    \/ \E scale \in {2} : SetTimeScale(scale)
    \/ \E maxSteps \in {1} : SetMaxStepsPerFrame(maxSteps)
    \/ \E type \in {"RK4"} : SetIntegrator(type)
    \/ \E cb \in {"log"} : SetLossCallback(cb)
    \/ \E acc \in {1} : SetAccelerator(acc)
    \/ \E in \in {ConfigParticle} : AddParticle(in)

SpecConfig == InitEngine /\ [][NextConfig]_vars

----------------------------------------------------------------------------
(* The loss specification: steps and frames of two sub-steps with every    *)
(* lattice binding, with and without a loss callback.                      *)

AcceleratorInputs == {Null, 1, 2, 3}

NextLoss ==
    \/ Start
    \/ Reset
    \/ Step
    \/ \E deltaTime \in {3} : Update(deltaTime)
    \/ \E acc \in AcceleratorInputs : SetAccelerator(acc)
    \/ \E cb \in {"log"} : SetLossCallback(cb)
    \/ \E in \in ParticleInputs : AddParticle(in)

SpecLoss == InitEngine /\ [][NextLoss]_vars

----------------------------------------------------------------------------
(* The callback specification: frames of two sub-steps on an engine whose   *)
(* loss callback stops or pauses it.                                        *)

NextCallback ==
    \/ Start
    \/ Resume
    \/ \E deltaTime \in {3} : Update(deltaTime)
    \/ \E acc \in {1} : SetAccelerator(acc)
    \/ \E cb \in {"stop", "pause"} : SetLossCallback(cb)
    \/ \E in \in ParticleInputs : AddParticle(in)

SpecCallback == InitEngine /\ [][NextCallback]_vars

----------------------------------------------------------------------------
(* The field source specification: the parameters of the magnets and the    *)
(* cavity are changed and their field sources asked for.  The refresh       *)
(* specification: the gradient of a quadrupole is changed with its lattice  *)
(* bound to the engine and steps taken in between.                          *)

\* component, member and the value it is set to
ParameterInputs ==
    {<<2, "strength", 2>>, <<4, "strength", 1>>, <<4, "frequency", 2>>, <<4, "phase", 1>>,
     <<5, "strength", 2>>}

SetParameter(id, member, value) ==
    /\ member \in Mutable(components[id])
    /\ components' = [components EXCEPT ![id] = Component_set(@, member, value)]
    /\ last' = [op |-> "setParameter", arg |-> <<id, member, value>>, obs |-> Obs0]
    /\ UNCHANGED <<engine, accelerators, sources, s_nextId, systems, config, particle>>

\* getFieldSource() on a component; sources are built while the heap holds
\* fewer than MaxSources of them
GetFieldSource(id) ==
    LET r == getFieldSource(Heap, id)
    IN  /\ Len(r.h.srcs) <= MaxSources
        /\ components' = r.h.comps
        /\ sources' = r.h.srcs
        /\ last' = [op |-> "getFieldSource", arg |-> id, obs |-> [result |-> r.src]]
        /\ UNCHANGED <<engine, accelerators, s_nextId, systems, config, particle>>

NextSource ==
    \/ \E in \in ParameterInputs : SetParameter(in[1], in[2], in[3])
    \/ \E id \in DOMAIN components : GetFieldSource(id)

SpecSource == InitEngine /\ [][NextSource]_vars

GradientInputs == {<<2, "strength", 1>>, <<2, "strength", 2>>}

NextRefresh ==
    \/ \E in \in GradientInputs : SetParameter(in[1], in[2], in[3])
    \/ \E acc \in {1, 2} : Len(sources) < MaxSources /\ SetAccelerator(acc)
    \/ Step
    \/ \E in \in {ConfigParticle} : AddParticle(in)

SpecRefresh == InitEngine /\ [][NextRefresh]_vars

----------------------------------------------------------------------------
(* The lattice specification: one Accelerator, empty as constructed, and   *)
(* the components a caller has constructed and holds by shared_ptr.  The   *)
(* caller may hand the same component to the lattice more than once.       *)

LatticeComponents ==
    <<NewComponent("BeamPipe", "D", 3, Aperture("Circular", DefaultRadius, DefaultRadius),
                   0, 0, 0),
      NewComponent("Quadrupole", "Q", 2, Aperture("Circular", DefaultRadius, DefaultRadius),
                   1, 0, 0)>>

\* the shared_ptr arguments: the components held, and nullptr
ComponentInputs == {Null} \cup DOMAIN LatticeComponents
IndexInputs == 0..MaxLatticeLen
NameInputs == {"D", "X"}
\* the doubles asked for: the grid from below 0 to beyond the longest
\* lattice, and the doubles next to 0
SInputs ==
    {Double(n) : n \in -MaxS..MaxS} \cup {[n |-> 0, eps |-> -1], [n |-> 0, eps |-> 1]}

InitLattice ==
    /\ engine = NewEngine(DefaultMaxStepsPerFrame)
    /\ accelerators = <<NewAccelerator>>
    /\ components = LatticeComponents
    /\ sources = <<>>
    /\ s_nextId = 0
    /\ systems = <<>>
    /\ config = NewConfig
    /\ particle = [p |-> NewKinematics(<<RealZero, RealZero, RealZero>>), calls |-> 0]
    /\ last = NoCall

\* the lattice the calls are made on
TheLattice == accelerators[1]

\* the state after a call that leaves lattice a1 and components comps1
LatticeReturns(op, arg, a1, comps1) ==
    /\ accelerators' = [accelerators EXCEPT ![1] = a1]
    /\ components' = comps1
    /\ last' = [op |-> op, arg |-> arg, obs |-> Obs0]
    /\ UNCHANGED <<engine, sources, s_nextId, systems, config, particle>>

AddComponent(c) ==
    /\ Len(TheLattice.m_components) < MaxLatticeLen
    /\ LatticeReturns("addComponent", <<c>>, addComponent(TheLattice, c), components)

InsertComponent(index, c) ==
    /\ Len(TheLattice.m_components) < MaxLatticeLen
    /\ LatticeReturns("insertComponent", <<index, c>>,
                      insertComponent(TheLattice, index, c), components)

RemoveComponentAt(index) ==
    LatticeReturns("removeComponent", <<index>>,
                   removeComponentAt(TheLattice, index), components)

RemoveComponentNamed(name) ==
    LatticeReturns("removeComponentNamed", <<name>>,
                   removeComponentNamed(components, TheLattice, name), components)

Clear == LatticeReturns("clear", <<>>, Accelerator_clear(TheLattice), components)

ComputeLattice ==
    LET r == computeLattice(TheLattice, components)
    IN  LatticeReturns("computeLattice", <<>>, r.a, r.comps)

CloseRing ==
    LET r == closeRing(TheLattice, components)
    IN  LatticeReturns("closeRing", <<>>, r.a, r.comps)

\* the result of a query on the lattice, kept for its caller
LatticeAnswers(op, arg, result) ==
    /\ last' = [op |-> op, arg |-> arg, obs |-> [result |-> result]]
    /\ UNCHANGED <<engine, accelerators, components, sources, s_nextId, systems, config, particle>>

GetComponentAtS(s) ==
    LatticeAnswers("getComponentAtS", <<s>>, getComponentAtS(TheLattice, components, s))

GetComponentAt(index) ==
    LatticeAnswers("getComponent", <<index>>, getComponentAt(TheLattice, index))

GetComponentNamed(name) ==
    LatticeAnswers("getComponentNamed", <<name>>,
                   getComponentNamed(components, TheLattice, name))

NextLattice ==
    \/ \E c \in ComponentInputs : AddComponent(c)
    \/ \E index \in IndexInputs, c \in ComponentInputs : InsertComponent(index, c)
    \/ \E index \in IndexInputs : RemoveComponentAt(index)
    \/ \E name \in NameInputs : RemoveComponentNamed(name)
    \/ Clear
    \/ ComputeLattice
    \/ CloseRing
    \/ \E s \in SInputs : GetComponentAtS(s)
    \/ \E index \in IndexInputs : GetComponentAt(index)
    \/ \E name \in NameInputs : GetComponentNamed(name)

SpecLattice == InitLattice /\ [][NextLattice]_vars

----------------------------------------------------------------------------
(* The builder specification: one Accelerator, empty as constructed, built *)
(* up by the FODO builders, by drifts and by components the caller holds.  *)

\* the FODOCellParams handed in: the defaults, a short cell with a computed
\* drift, the same with an explicit drift, a cell shorter than its two
\* quadrupoles, and a cell without gradient
FODOParamInputs ==
    {DefaultFODOCellParams,
     [cellLength |-> 6, quadLength |-> 1, quadGradient |-> 2, driftLength |-> 0, aperture |-> 4],
     [cellLength |-> 6, quadLength |-> 1, quadGradient |-> 2, driftLength |-> 1, aperture |-> 4],
     [cellLength |-> 2, quadLength |-> 2, quadGradient |-> -1, driftLength |-> 0, aperture |-> 4],
     [cellLength |-> 4, quadLength |-> 1, quadGradient |-> 0, driftLength |-> 0, aperture |-> 4]}
CellNameInputs == {"FODO", "A"}
NumCellsInputs == 0..MaxCells
DriftNameInputs == {"", "D"}

BuildFODOCell(params, cellName) ==
    /\ Len(TheLattice.m_components) <= MaxBuildOn
    /\ LET r == buildFODOCell(TheLattice, components, params, cellName)
       IN  LatticeReturns("buildFODOCell", <<params, cellName>>, r.a, r.comps)

BuildFODOLattice(params, numCells) ==
    /\ Len(TheLattice.m_components) <= MaxBuildOn
    /\ LET r == buildFODOLattice(TheLattice, components, params, numCells)
       IN  LatticeReturns("buildFODOLattice", <<params, numCells>>, r.a, r.comps)

AddDrift(name) ==
    /\ Len(TheLattice.m_components) < MaxLatticeLen
    /\ LET r == addDrift(TheLattice, components, 3, name)
       IN  LatticeReturns("addDrift", <<3, name>>, r.a, r.comps)

NextBuilder ==
    \/ \E params \in FODOParamInputs, cellName \in CellNameInputs :
           BuildFODOCell(params, cellName)
    \/ \E params \in FODOParamInputs, numCells \in NumCellsInputs :
           BuildFODOLattice(params, numCells)
    \/ \E name \in DriftNameInputs : AddDrift(name)
    \/ \E c \in ComponentInputs : AddComponent(c)
    \/ ComputeLattice

SpecBuilder == InitLattice /\ [][NextBuilder]_vars

----------------------------------------------------------------------------
(* The field specification: one EMFieldManager (the engine's) and the      *)
(* field sources a caller has constructed and holds by shared_ptr.         *)

\* three uniform fields without bounds, two of them opposite and at the top
\* of the exactly counted range, and a quadrupole field about the origin
FieldSourcePool ==
    <<[kind |-> "UniformB", enabled |-> TRUE, field |-> <<2 ^ MantissaBits, 0, 0>>,
       bounds |-> [infinite |-> TRUE, min2 |-> Zero3, max2 |-> Zero3]],
      [kind |-> "UniformB", enabled |-> TRUE, field |-> <<1, 0, 0>>,
       bounds |-> [infinite |-> TRUE, min2 |-> Zero3, max2 |-> Zero3]],
      [kind |-> "UniformB", enabled |-> TRUE, field |-> <<-(2 ^ MantissaBits), 0, 0>>,
       bounds |-> [infinite |-> TRUE, min2 |-> Zero3, max2 |-> Zero3]],
      [kind |-> "Quadrupole", enabled |-> TRUE, gradient |-> 1,
       center |-> Zero3, length |-> 4, aperture |-> DefaultRadius,
       bounds |-> BoxAround(Zero3, DefaultRadius, 4)]>>

SourceInputs == {Null} \cup DOMAIN FieldSourcePool
PositionInputs == {<<0, 0, 0>>, <<2, 3, 0>>, <<9, 0, 0>>}

InitFields ==
    /\ engine = NewEngine(DefaultMaxStepsPerFrame)
    /\ accelerators = <<>>
    /\ components = <<>>
    /\ sources = FieldSourcePool
    /\ s_nextId = 0
    /\ systems = <<>>
    /\ config = NewConfig
    /\ particle = [p |-> NewKinematics(<<RealZero, RealZero, RealZero>>), calls |-> 0]
    /\ last = NoCall

\* the manager the calls are made on
TheManager == engine.m_fieldManager

\* the state after a call that leaves the manager's m_sources as mgr1
ManagerReturns(op, arg, mgr1) ==
    /\ engine' = [engine EXCEPT !.m_fieldManager = mgr1]
    /\ last' = [op |-> op, arg |-> arg, obs |-> Obs0]
    /\ UNCHANGED <<accelerators, components, sources, s_nextId, systems, config, particle>>

AddSource(src) ==
    /\ Len(TheManager) < MaxSources
    /\ ManagerReturns("addSource", <<src>>, EMFieldManager_addSource(TheManager, src))

RemoveSource(src) ==
    ManagerReturns("removeSource", <<src>>, EMFieldManager_removeSource(TheManager, src))

ClearSources == ManagerReturns("clear", <<>>, EMFieldManager_clear(TheManager))

SetEnabled(src, enabled) ==
    /\ sources' = [sources EXCEPT ![src].enabled = enabled]
    /\ last' = [op |-> "setEnabled", arg |-> <<src, enabled>>, obs |-> Obs0]
    /\ UNCHANGED <<engine, accelerators, components, s_nextId, systems, config, particle>>

Evaluate(position, time) ==
    LatticeAnswers("evaluate", <<position, time>>,
                   EMFieldManager_evaluate(sources, TheManager, position, time))

NextFields ==
    \/ \E src \in SourceInputs : AddSource(src)
    \/ \E src \in SourceInputs : RemoveSource(src)
    \/ ClearSources
    \/ \E src \in DOMAIN FieldSourcePool, enabled \in BOOLEAN : SetEnabled(src, enabled)
    \/ \E position \in PositionInputs : Evaluate(position, 0)

SpecFields == InitFields /\ [][NextFields]_vars

----------------------------------------------------------------------------
(* The ensemble specification: two ParticleSystem objects as constructed,  *)
(* filled by generateBeam and addParticle and cut by applyAperture.        *)

DefaultBeamParameters ==
    [particleType |-> "Proton", numParticles |-> 2, kineticEnergy |-> 4,
     sigmaX |-> 1, sigmaY |-> 1, sigmaZ |-> 1,
     sigmaPx |-> 1, sigmaPy |-> 1, sigmaDelta |-> 1,
     positionOffset |-> Zero3, direction |-> <<0, 0, 1>>,
     distribution |-> "Gaussian", seed |-> 42]

\* the BeamParameters handed in: the defaults of the model, another seed,
\* the other two distributions, and a beam along y
BeamInputs ==
    {DefaultBeamParameters,
     [DefaultBeamParameters EXCEPT !.seed = 7],
     [DefaultBeamParameters EXCEPT !.distribution = "Uniform", !.numParticles = 1],
     [DefaultBeamParameters EXCEPT !.distribution = "Waterbag", !.particleType = "Electron",
                                   !.seed = 5],
     [DefaultBeamParameters EXCEPT !.direction = <<0, 2, 0>>, !.numParticles = 0]}
RadiusInputs == {-1, 1, 3}
SystemIds == {1, 2}

InitEnsemble ==
    /\ engine = NewEngine(DefaultMaxStepsPerFrame)
    /\ accelerators = <<>>
    /\ components = <<>>
    /\ sources = <<>>
    /\ s_nextId = 0
    /\ systems = <<NewParticleSystem, NewParticleSystem>>
    /\ config = NewConfig
    /\ particle = [p |-> NewKinematics(<<RealZero, RealZero, RealZero>>), calls |-> 0]
    /\ last = NoCall

\* the state after a call on system i that leaves it as ps1
SystemReturns(op, arg, i, ps1, nextId, result) ==
    /\ systems' = [systems EXCEPT ![i] = ps1]
    /\ s_nextId' = nextId
    /\ last' = [op |-> op, arg |-> arg, obs |-> [result |-> result]]
    /\ UNCHANGED <<engine, accelerators, components, sources, config, particle>>

GenerateBeam(i, params) ==
    /\ s_nextId + params.numParticles + 1 <= MaxBeamIds
    /\ LET r == generateBeam(systems[i], params, s_nextId)
       IN  SystemReturns("generateBeam", <<i, params>>, i, r.ps, r.nextId, Null)

\* addParticle of a particle constructed for the call
AddNewParticle(i, in) ==
    /\ Len(systems[i].m_particles) < MaxEnsemble
    /\ s_nextId < MaxBeamIds
    /\ SystemReturns("addParticle", <<i, in>>, i,
                     ParticleSystem_addParticle(systems[i],
                         NewParticle(s_nextId, in.charge, in.pos, in.mom)),
                     s_nextId + 1, Null)

\* addParticle of the particle system j holds at index k (zero-based)
AddStoredParticle(i, j, k) ==
    /\ Len(systems[i].m_particles) < MaxEnsemble
    /\ k < Len(systems[j].m_particles)
    /\ SystemReturns("addParticleOf", <<i, j, k>>, i,
                     ParticleSystem_addParticle(systems[i], systems[j].m_particles[k + 1]),
                     s_nextId, Null)

ApplyAperture(i, radius) ==
    LET r == applyAperture(systems[i], radius)
    IN  SystemReturns("applyAperture", <<i, radius>>, i, r.ps, s_nextId, r.lostCount)

RemoveInactiveParticles(i) ==
    SystemReturns("removeInactiveParticles", <<i>>, i, removeInactiveParticles(systems[i]),
                  s_nextId, Null)

\* computeStatistics() is const: the caller gets the statistics
ComputeStatistics(i) ==
    /\ last' = [op |-> "computeStatistics", arg |-> <<i>>,
                obs |-> [stats |-> computeStatistics(systems[i].m_particles)]]
    /\ UNCHANGED <<engine, accelerators, components, sources, s_nextId, systems, config,
                   particle>>

\* the calls on the first system
NextEnsemble ==
    \/ ComputeStatistics(1)
    \/ \E params \in BeamInputs : GenerateBeam(1, params)
    \/ \E in \in ParticleInputs : AddNewParticle(1, in)
    \/ \E k \in 0..(MaxEnsemble - 1) : AddStoredParticle(1, 1, k)
    \/ \E radius \in RadiusInputs : ApplyAperture(1, radius)
    \/ RemoveInactiveParticles(1)

SpecEnsemble == InitEnsemble /\ [][NextEnsemble]_vars

\* beams generated on both systems, with particles added and lost in between
NextBeam ==
    \/ \E i \in SystemIds, params \in BeamInputs : GenerateBeam(i, params)
    \/ \E i \in SystemIds : AddNewParticle(i, ConfigParticle)
    \/ \E i \in SystemIds : ApplyAperture(i, 1)

SpecBeam == InitEnsemble /\ [][NextBeam]_vars

----------------------------------------------------------------------------
(* The configuration specification: one Config as constructed, and the     *)
(* files a caller asks it to load.                                         *)

Section(members, wrongType) ==
    [present |-> TRUE, members |-> members, wrongType |-> wrongType]
NoSection == [present |-> FALSE, members |-> <<>>, wrongType |-> {}]
Document(simulation, window, render) ==
    [open |-> TRUE, wellFormed |-> TRUE,
     json |-> [simulation |-> simulation, window |-> window, render |-> render]]

\* the files: one that cannot be opened, one that is no JSON, and documents
\* with complete, partial, missing and ill-typed sections
FileInputs ==
    {[open |-> FALSE, wellFormed |-> FALSE, json |-> Null],
     [open |-> TRUE, wellFormed |-> FALSE, json |-> Null],
     Document(Section([timeStep |-> 2, timeScale |-> 3, integratorType |-> 0,
                       particleCount |-> 10, beamEnergy |-> 7], {}),
              Section([width |-> 800, height |-> 600, vsync |-> FALSE,
                       fullscreen |-> TRUE], {}),
              Section([wireframe |-> TRUE, showGrid |-> FALSE, showAxes |-> FALSE,
                       particleSize |-> 4, colorScheme |-> 1], {})),
     Document(Section([timeStep |-> 5], {}), NoSection, NoSection),
     Document(NoSection, Section([width |-> 1024], {}), Section([colorScheme |-> 2], {})),
     Document(Section([timeStep |-> 4, particleCount |-> 50], {}),
              Section([height |-> 480], {"width"}), NoSection),
     Document(Section([timeScale |-> 2], {}), Section([fullscreen |-> TRUE], {}),
              Section([wireframe |-> TRUE], {"particleSize"})),
     Document(Section([timeStep |-> 3], {"integratorType"}),
              Section([width |-> 640], {}), NoSection),
     Document(Section([beamEnergy |-> 3], {}), NoSection,
              Section([showGrid |-> FALSE], {})),
     Document(Section([integratorType |-> 7], {}), NoSection, NoSection),
     Document(NoSection, NoSection, NoSection)}

InitConfig ==
    /\ engine = NewEngine(DefaultMaxStepsPerFrame)
    /\ accelerators = <<>>
    /\ components = <<>>
    /\ sources = <<>>
    /\ s_nextId = 0
    /\ systems = <<>>
    /\ config = NewConfig
    /\ particle = [p |-> NewKinematics(<<RealZero, RealZero, RealZero>>), calls |-> 0]
    /\ last = NoCall

Load(file) ==
    LET r == Config_load(config, file)
    IN  /\ config' = r.c
        /\ last' = [op |-> "load", arg |-> file, obs |-> [result |-> r.result]]
        /\ UNCHANGED <<engine, accelerators, components, sources, s_nextId, systems,
                       particle>>

LoadDefaults ==
    /\ config' = loadDefaults(config)
    /\ last' = [op |-> "loadDefaults", arg |-> Null, obs |-> Obs0]
    /\ UNCHANGED <<engine, accelerators, components, sources, s_nextId, systems,
                   particle>>

\* integrator kinds a caller passes: one named kind and one value outside
\* the enumeration
IntegratorInputs == {"Euler", Type_cast(7)}

\* names handed to IntegratorFactory::create
IntegratorNames == {"Euler", "Verlet", "VelocityVerlet", "Boris", "RK4", "unknown", ""}

NextFile ==
    \/ \E file \in FileInputs : Load(file)
    \/ LoadDefaults
    \/ ApplyToEngine
    \/ \E type \in IntegratorInputs : SetIntegrator(type)

SpecFile == InitConfig /\ [][NextFile]_vars

----------------------------------------------------------------------------
(* The particle specification: the mutators of one Particle, called with   *)
(* momenta, velocities and kinetic energies below, at and beyond the       *)
(* limits of their physical range.                                         *)

RealVector(q1, q2, q3) == <<FromRat(q1), FromRat(q2), FromRat(q3)>>

\* momenta in units of m c
MomentumInputs ==
    {RealVector(<<0, 1>>, <<0, 1>>, <<0, 1>>), RealVector(<<3, 1>>, <<0, 1>>, <<4, 1>>),
     RealVector(<<0, 1>>, <<-1, 1>>, <<0, 1>>)}

MomentumComponentInputs == {FromRat(<<0, 1>>), FromRat(<<2, 1>>), FromRat(<<-1, 1>>)}

\* velocities in units of c: at rest, below c, of magnitude c and above c
VelocityInputs ==
    {RealVector(<<0, 1>>, <<0, 1>>, <<0, 1>>), RealVector(<<1, 2>>, <<0, 1>>, <<0, 1>>),
     RealVector(<<1, 1>>, <<0, 1>>, <<0, 1>>), RealVector(<<3, 5>>, <<0, 1>>, <<-4, 5>>),
     RealVector(<<0, 1>>, <<3, 1>>, <<-4, 1>>)}

\* kinetic energies in units of the rest energy
KineticEnergyInputs == {<<0, 1>>, <<1, 1>>, <<2, 3>>, <<-1, 2>>, <<-1, 1>>}

DirectionInputs ==
    {RealVector(<<0, 1>>, <<0, 1>>, <<0, 1>>), RealVector(<<0, 1>>, <<0, 1>>, <<1, 1>>),
     RealVector(<<1, 1>>, <<-1, 1>>, <<0, 1>>)}

\* the squares of the momentum components are quotients of numbers up to
\* MaxSquare
WithinMaxSquare(p) ==
    \A i \in 1..3 : /\ p.m_momentum[i].sq[1] <= MaxSquare
                    /\ p.m_momentum[i].sq[2] <= MaxSquare

ParticleReturns(op, arg, p1) ==
    /\ particle.calls < MaxMutations
    /\ WithinMaxSquare(p1)
    /\ particle' = [p |-> p1, calls |-> particle.calls + 1]
    /\ last' = [op |-> op, arg |-> arg, obs |-> Obs0]
    /\ UNCHANGED <<engine, accelerators, components, sources, s_nextId, systems, config>>

SetMomentum(momentum) ==
    ParticleReturns("setMomentum", momentum, setMomentum(particle.p, momentum))

SetPAxis(axis, value) ==
    ParticleReturns("setP", <<axis, value>>, setPAxis(particle.p, axis, value))

SetVelocity(velocity) ==
    ParticleReturns("setVelocity", velocity, setVelocity(particle.p, velocity))

SetKineticEnergy(kineticEnergy, direction) ==
    ParticleReturns("setKineticEnergy", <<kineticEnergy, direction>>,
                    setKineticEnergy(particle.p, kineticEnergy, direction))

NextParticle ==
    \/ \E momentum \in MomentumInputs : SetMomentum(momentum)
    \/ \E axis \in 1..3, value \in MomentumComponentInputs : SetPAxis(axis, value)
    \/ \E velocity \in VelocityInputs : SetVelocity(velocity)
    \/ \E kineticEnergy \in KineticEnergyInputs, direction \in DirectionInputs :
          SetKineticEnergy(kineticEnergy, direction)

SpecParticle == InitConfig /\ [][NextParticle]_vars

----------------------------------------------------------------------------
(* Properties of the controller.                                           *)

\* C1: pause() changes the state only from Running, to Paused; resume()
\* changes it only from Paused, to Running; in any other state each leaves
\* the state as it is; stop() leaves the state Stopped; the state after
\* construction is Stopped.
C1_PauseResumeStop ==
    /\ engine.m_state = "Stopped"
    /\ [][/\ last'.op = "pause" =>
                engine'.m_state = IF engine.m_state = "Running" THEN "Paused"
                                  ELSE engine.m_state
          /\ last'.op = "resume" =>
                engine'.m_state = IF engine.m_state = "Paused" THEN "Running"
                                  ELSE engine.m_state
          /\ last'.op = "stop" => engine'.m_state = "Stopped"]_vars

\* pause() was called on a stopped controller that has run, and left it so
C1_Witness ==
    /\ last.op = "pause"
    /\ engine.m_state = "Stopped"
    /\ engine.m_stats.stepCount > 0

\* C2: start() leaves the controller Running; from Stopped the ensemble is
\* empty and simulation time, step count and lost count are zero
\* afterwards; from Paused or Running every field but the state is kept.
C2_StartResetsOnlyFromStopped ==
    [][last'.op = "start" =>
          /\ engine'.m_state = "Running"
          /\ IF engine.m_state = "Stopped"
             THEN /\ engine'.m_particles = <<>>
                  /\ engine'.m_currentTime = 0
                  /\ engine'.m_stats.simulationTime = 0
                  /\ engine'.m_stats.stepCount = 0
                  /\ engine'.m_stats.lostParticleCount = 0
             ELSE engine' = [engine EXCEPT !.m_state = "Running"]]_vars

\* start() was called on a controller that was not stopped: it runs, and
\* holds particles, steps, losses and a part of a time step accumulated
C2_Witness ==
    /\ last.op = "start"
    /\ engine.m_state = "Running"
    /\ engine.m_particles # <<>>
    /\ engine.m_stats.stepCount > 0
    /\ engine.m_stats.lostParticleCount > 0

\* C3: update(dt) on a controller that is Stopped or Paused changes nothing
\* of the engine, the lattices, the components or the field sources.
C3_UpdateWhileNotRunning ==
    [][last'.op = "update" /\ engine.m_state # "Running" =>
          UNCHANGED <<engine, accelerators, components, sources, s_nextId>>]_vars

\* update(3) was called on a paused controller that holds a particle and an
\* accumulated time step
C3_Witness ==
    /\ last.op = "update"
    /\ last.arg = 3
    /\ engine.m_state = "Paused"
    /\ engine.m_particles # <<>>
    /\ engine.m_stats.stepCount > 0

\* C4: in one update() on a running controller a sub-step is executed
\* exactly while accumulator >= dt and the count of sub-steps of the call
\* is below M: each sub-step executed passed that test, the loop ended on
\* its failing, at most M sub-steps are executed, and with fewer than M the
\* accumulator left is below dt.
C4_SubStepLoop ==
    [][last'.op = "update" /\ engine.m_state = "Running" =>
          LET iters == last'.obs.iters
              exit == last'.obs.exit
              dt == engine.m_timeStep
              M == engine.m_maxStepsPerFrame
          IN  /\ \A k \in 1..Len(iters) :
                    /\ iters[k].n = k - 1
                    /\ iters[k].acc >= dt
                    /\ iters[k].n < M
              /\ exit.n = Len(iters)
              /\ ~(exit.acc >= dt /\ exit.n < M)
              /\ engine'.m_stats.stepCount = engine.m_stats.stepCount + Len(iters)
              /\ engine'.m_stats.stepCount - engine.m_stats.stepCount <= M
              /\ Len(iters) < M => engine'.m_accumulatedTime < dt]_vars

\* an update() executed a sub-step, fewer than M of them, and left a part of
\* a time step in the accumulator
C4_Witness ==
    /\ last.op = "update"
    /\ Len(last.obs.iters) >= 1
    /\ Len(last.obs.iters) < engine.m_maxStepsPerFrame
    /\ engine.m_accumulatedTime > 0
    /\ engine.m_accumulatedTime < engine.m_timeStep

\* C5: reset() empties the ensemble and zeroes the accumulator, the
\* simulation time, the step counter, the lost counter and the performance
\* counters, and leaves the state, the integrator, dt, the time scale, the
\* sub-step cap, the loss callback, the bound lattice and the sources of the
\* field manager as they are.
C5_ResetFrame ==
    [][last'.op = "reset" =>
          /\ engine'.m_particles = <<>>
          /\ engine'.m_accumulatedTime = 0
          /\ engine'.m_currentTime = 0
          /\ engine'.m_stats.simulationTime = 0
          /\ engine'.m_stats.stepCount = 0
          /\ engine'.m_stats.lostParticleCount = 0
          /\ engine'.m_stats.stepsPerSecond = RatZero
          /\ engine'.m_stepsThisSecond = 0
          /\ engine'.m_lastStepTime = 0
          /\ engine'.m_state = engine.m_state
          /\ engine'.m_integrator = engine.m_integrator
          /\ engine'.m_integratorType = engine.m_integratorType
          /\ engine'.m_timeStep = engine.m_timeStep
          /\ engine'.m_timeScale = engine.m_timeScale
          /\ engine'.m_maxStepsPerFrame = engine.m_maxStepsPerFrame
          /\ engine'.m_lossCallback = engine.m_lossCallback
          /\ engine'.m_accelerator = engine.m_accelerator
          /\ engine'.m_fieldManager = engine.m_fieldManager
          /\ UNCHANGED <<accelerators, components, sources>>]_vars

\* reset() was called on a paused controller with every setting changed
\* from its default, a lattice bound and particles constructed before
C5_Witness ==
    /\ last.op = "reset"
    /\ engine.m_state = "Paused"
    /\ engine.m_integratorType = "RK4"
    /\ engine.m_timeStep = 2
    /\ engine.m_timeScale = 2
    /\ engine.m_maxStepsPerFrame = 1
    /\ engine.m_lossCallback = "log"
    /\ engine.m_accelerator = 1
    /\ engine.m_fieldManager # <<>>
    /\ s_nextId > 0

\* the active particles of the ensemble ps, in order
C6_ActiveIds(ps) == [k \in 1..Len(ActiveOf(ps)) |-> ActiveOf(ps)[k].id]

\* C6: step() performs one sub-step in any state: every active particle,
\* and no other, is integrated once with the time and dt of before the
\* call; loss detection sees the integrated positions; then the time is
\* advanced by dt and the step count by 1; the state and the accumulator
\* are as before.
C6_StepIsOneSubStep ==
    [][last'.op = "step" =>
          LET pushes == last'.obs.pushes
              losses == last'.obs.losses
          IN  /\ Len(pushes) = Len(C6_ActiveIds(engine.m_particles))
              /\ \A k \in 1..Len(pushes) :
                    /\ pushes[k].id = C6_ActiveIds(engine.m_particles)[k]
                    /\ pushes[k].time = engine.m_currentTime
                    /\ pushes[k].dt = engine.m_timeStep
              /\ \A i \in 1..Len(engine.m_particles) :
                    ~engine'.m_particles[i].active =>
                        \/ ~engine.m_particles[i].active
                        \/ IsLost(components,
                                  accelerators[engine.m_accelerator].m_components,
                                  engine'.m_particles[i].pos)
              /\ engine'.m_currentTime = engine.m_currentTime + engine.m_timeStep
              /\ engine'.m_stats.simulationTime = engine'.m_currentTime
              /\ engine'.m_stats.stepCount = engine.m_stats.stepCount + 1
              /\ engine'.m_state = engine.m_state
              /\ engine'.m_accumulatedTime = engine.m_accumulatedTime]_vars

\* step() was called on a paused controller with two active particles, at a
\* time after zero, and one of the two was lost in it
C6_Witness ==
    /\ last.op = "step"
    /\ engine.m_state = "Paused"
    /\ Len(last.obs.pushes) = 2
    /\ last.obs.pushes[1].time > 0
    /\ engine.m_stats.lostParticleCount = 1

----------------------------------------------------------------------------
(* Properties of loss detection and of the lattice binding.                *)

\* the loss condition of C7 at position pos: a lattice is bound, it has a
\* component, pos is inside no component's aperture and the transverse
\* radius is above the fallback aperture
C7_Outside(pos) ==
    /\ engine.m_accelerator # Null
    /\ accelerators[engine.m_accelerator].m_components # <<>>
    /\ \A k \in 1..Len(accelerators[engine.m_accelerator].m_components) :
          ~Component_isInsideAperture(
               components[accelerators[engine.m_accelerator].m_components[k]], pos)
    /\ pos[1] * pos[1] + pos[2] * pos[2] > FallbackAperture * FallbackAperture

\* C7: after a call that executed a sub-step an active particle has become
\* inactive if and only if the loss condition holds of the position the
\* sub-step left it at; with no lattice bound, or a bound lattice without
\* components, no call deactivates a particle.
C7_LostIffOutside ==
    [][/\ engine'.m_stats.stepCount > engine.m_stats.stepCount =>
             \A i \in 1..Len(engine.m_particles) :
                 engine'.m_particles[i].active =
                     (engine.m_particles[i].active
                      /\ ~C7_Outside(engine'.m_particles[i].pos))
       /\ (\/ engine.m_accelerator = Null
           \/ accelerators[engine.m_accelerator].m_components = <<>>) =>
             \A i \in 1..Len(engine.m_particles) :
                 /\ i <= Len(engine'.m_particles)
                 /\ engine.m_particles[i].active
                 => engine'.m_particles[i].active]_vars

\* after a step with the lattice of the wide pipe bound, one particle is
\* lost at x = 13 and another is active at x = 11, beyond the fallback
\* aperture but inside the pipe's aperture
C7_Witness ==
    /\ last.op = "step"
    /\ engine.m_accelerator = 2
    /\ \E i, j \in 1..Len(engine.m_particles) :
          /\ ~engine.m_particles[i].active
          /\ engine.m_particles[i].pos[1] = 13
          /\ engine.m_particles[j].active
          /\ engine.m_particles[j].pos[1] = 11

\* the particles that a transition deactivates
C8_NewlyLost ==
    {i \in 1..Len(engine.m_particles) :
        /\ i <= Len(engine'.m_particles)
        /\ engine.m_particles[i].active
        /\ ~engine'.m_particles[i].active}

\* C8: for every particle a call finds lost the lost counter goes up by
\* one and the loss callback, if set, is invoked once, with the particle
\* and a reason, the particle already inactive and counted; a particle
\* already inactive is not counted or reported again.
C8_LossReportedOnce ==
    [][last'.op \in {"step", "update"} =>
          LET losses == last'.obs.losses
          IN  /\ engine'.m_stats.lostParticleCount =
                     engine.m_stats.lostParticleCount + Cardinality(C8_NewlyLost)
              /\ engine.m_lossCallback = "none" => losses = <<>>
              /\ engine.m_lossCallback # "none" =>
                    /\ Len(losses) = Cardinality(C8_NewlyLost)
                    /\ \A i \in C8_NewlyLost :
                          \E k \in 1..Len(losses) :
                              losses[k].args[1].id = engine.m_particles[i].id
                    /\ \A k \in 1..Len(losses) :
                          /\ Len(losses[k].args) = 2
                          /\ ~losses[k].args[1].active
                          /\ losses[k].lostCount = engine.m_stats.lostParticleCount + k]_vars

\* C9: after setAccelerator(acc) the field manager holds the field sources
\* of the components of acc, once each, and nothing else; for an unbinding
\* it holds nothing.
C9_ManagerHoldsNewLattice ==
    [][last'.op = "setAccelerator" =>
          LET acc == last'.arg
              ids == IF acc = Null THEN <<>> ELSE accelerators[acc].m_components
              want == {components'[ids[k]].fieldSource :
                          k \in {n \in 1..Len(ids) : HasField(components[ids[n]])}}
              held == engine'.m_fieldManager
          IN  /\ {held[k] : k \in 1..Len(held)} = want
              /\ Len(held) = Cardinality(want)]_vars

----------------------------------------------------------------------------
(* Properties of the lattice.                                              *)

\* the lengths of the components of the lattice, in order
C10_Lengths ==
    [k \in 1..Len(TheLattice.m_components) |->
        components[TheLattice.m_components[k]].length]

\* C10: right after computeLattice() or closeRing() the s-position of the
\* component at each index is the sum of the lengths of the components
\* before it, and the total length is the sum of all lengths: s + L of the
\* last component, or 0 for an empty lattice.
C10_PrefixSums ==
    last.op \in {"computeLattice", "closeRing"} =>
        LET ids == TheLattice.m_components
        IN  /\ \A i \in 1..Len(ids) :
                  components[ids[i]].sPosition = SumSeq(SubSeq(C10_Lengths, 1, i - 1))
            /\ TheLattice.m_totalLength = SumSeq(C10_Lengths)
            /\ ids # <<>> =>
                  TheLattice.m_totalLength =
                      components[ids[Len(ids)]].sPosition + components[ids[Len(ids)]].length
            /\ ids = <<>> => TheLattice.m_totalLength = 0

\* the value of s reduced modulo total > 0 into [0, total), in exact
\* arithmetic: total - e for a negative s next to a multiple of total
C11_Reduced(s, total) ==
    IF s.eps < 0 /\ s.n % total = 0 THEN [n |-> total, eps |-> -1]
    ELSE [n |-> s.n % total, eps |-> s.eps]

\* the components of the lattice with s_i <= x < s_i + L_i
C11_Containing(x) ==
    {TheLattice.m_components[i] : i \in
        {j \in 1..Len(TheLattice.m_components) :
            LET c == components[TheLattice.m_components[j]]
            IN  /\ ~DLess(x, Double(c.sPosition))
                /\ DLess(x, Double(c.sPosition + c.length))}}

\* C11: right after computeLattice() or closeRing(), getComponentAtS(s) is
\* the one component with s_i <= s < s_i + L_i; on a linear lattice it is
\* nothing for s < 0 and for s >= total length, on an empty lattice it is
\* nothing; on a circular lattice s counts modulo the total length, and
\* the answers for s and s + k * total are the same.
C11_ComponentAtS ==
    last.op \in {"computeLattice", "closeRing"} =>
        \A s \in SInputs :
            LET total == TheLattice.m_totalLength
                circular == TheLattice.m_latticeType = "Circular" /\ total > 0
                x == IF circular THEN C11_Reduced(s, total) ELSE s
                r == getComponentAtS(TheLattice, components, s)
            IN  /\ C11_Containing(x) = IF r = Null THEN {} ELSE {r}
                /\ ~circular /\ (DLess(s, Double(0)) \/ ~DLess(s, Double(total)))
                   => r = Null
                /\ TheLattice.m_components = <<>> => r = Null
                /\ circular =>
                      \A k \in -1..1 :
                          getComponentAtS(TheLattice, components, DAdd(s, k * total)) = r

----------------------------------------------------------------------------
(* Properties of the FODO builders.                                        *)

\* the name starts with the prefix
C12_StartsWith(name, prefix) ==
    Len(name) >= Len(prefix) /\ SubSeq(name, 1, Len(prefix)) = prefix

\* C12: buildFODOCell(params, cellName) appends exactly four new components,
\* in the order QF, Drift, QD, Drift: QF is a quadrupole of length
\* params.quadLength with gradient +params.quadGradient, QD a quadrupole of
\* the same length with gradient -params.quadGradient, both drifts are beam
\* pipes without a field source and of the same length, and every name
\* starts with cellName; the components the lattice had keep their order,
\* and no component that existed before the call is modified.
C12_FODOCellAppendsFour ==
    [][last'.op = "buildFODOCell" =>
        LET old == TheLattice.m_components
            new == TheLattice'.m_components
            params == last'.arg[1]
            cell == [k \in 1..4 |-> components'[new[Len(old) + k]]]
            h1 == [comps |-> components', srcs |-> sources']
        IN  /\ Len(new) = Len(old) + 4
            /\ SubSeq(new, 1, Len(old)) = old
            /\ \A k \in 1..4 : new[Len(old) + k] = Len(components) + k
            /\ SubSeq(components', 1, Len(components)) = components
            /\ cell[1].type = "Quadrupole" /\ cell[3].type = "Quadrupole"
            /\ cell[1].length = params.quadLength /\ cell[3].length = params.quadLength
            /\ cell[1].strength = params.quadGradient
            /\ cell[3].strength = -params.quadGradient
            /\ cell[2].type = "BeamPipe" /\ cell[4].type = "BeamPipe"
            /\ getFieldSource(h1, new[Len(old) + 2]).src = Null
            /\ getFieldSource(h1, new[Len(old) + 4]).src = Null
            /\ cell[2].length = cell[4].length
            /\ \A k \in 1..4 : C12_StartsWith(cell[k].name, last'.arg[2])
    ]_vars

\* a cell with a gradient has been appended to a lattice that had components
C12_Witness ==
    /\ last.op = "buildFODOCell"
    /\ last.arg[1].quadGradient # 0
    /\ Len(TheLattice.m_components) > 4
    /\ components[TheLattice.m_components[1]].type = "BeamPipe"

\* the components a call appended, in order
C13_Appended ==
    LET old == TheLattice.m_components
        new == TheLattice'.m_components
    IN  [k \in 1..(Len(new) - Len(old)) |-> components'[new[Len(old) + k]]]

\* the cells a builder call made are n runs of four components: 4n
\* components, 2n of them quadrupoles, n of these with the gradient of QF and
\* n with the gradient of QD, which are of opposite sign unless the
\* gradient is 0
C13_Counts(n, params) ==
    LET cs == C13_Appended
        quads == {k \in 1..Len(cs) : cs[k].type = "Quadrupole"}
    IN  /\ Len(cs) = 4 * n
        /\ Cardinality(quads) = 2 * n
        /\ params.quadGradient # 0 =>
              /\ Cardinality({k \in quads : cs[k].strength > 0}) = n
              /\ Cardinality({k \in quads : cs[k].strength < 0}) = n

\* the lattice total length once computeLattice() has run after the call
C13_ComputedTotal == computeLattice(TheLattice', components').a.m_totalLength

\* C13 as stated: every FODO cell has total length C, and
\* buildFODOLattice(params, n) on an empty lattice yields 4n components, 2n
\* quadrupoles (n of either sign) and, once computed, total length n*C.
C13_CellLengthIsC ==
    [][/\ last'.op = "buildFODOCell" =>
              SumSeq([k \in 1..4 |-> C13_Appended[k].length]) = last'.arg[1].cellLength
       /\ last'.op = "buildFODOLattice" /\ TheLattice.m_components = <<>> =>
              /\ C13_Counts(last'.arg[2], last'.arg[1])
              /\ C13_ComputedTotal = last'.arg[2] * last'.arg[1].cellLength
    ]_vars

\* C13, amended: the four lengths of a FODO cell add up to C when no drift
\* length is given (params.driftLength <= 0), and to 2*quadLength +
\* 2*driftLength when one is.  buildFODOLattice(params, n) appends 4n
\* components, 2n of them quadrupoles (n of either sign when the gradient is
\* not 0), and leaves the stored total length as it was; computeLattice()
\* then reports a total length grown by n times the length of a cell, which
\* is n*C on an empty lattice when no drift length is given.
C13_CellLengthComputedDrift ==
    [][LET params == last'.arg[1]
           cellSum == IF params.driftLength <= 0 THEN params.cellLength
                      ELSE 2 * params.quadLength + 2 * params.driftLength
           before == computeLattice(TheLattice, components).a.m_totalLength
       IN  /\ last'.op = "buildFODOCell" =>
                  /\ SumSeq([k \in 1..4 |-> C13_Appended[k].length]) = cellSum
                  /\ C13_Counts(1, params)
           /\ last'.op = "buildFODOLattice" =>
                  /\ C13_Counts(last'.arg[2], params)
                  /\ \A c \in 0..(last'.arg[2] - 1) :
                         SumSeq([k \in 1..4 |-> C13_Appended[4 * c + k].length]) = cellSum
                  /\ TheLattice'.m_totalLength = TheLattice.m_totalLength
                  /\ C13_ComputedTotal = before + last'.arg[2] * cellSum
    ]_vars

\* the example: four default cells on an empty lattice are 16 components
C13_Witness ==
    /\ last.op = "buildFODOLattice"
    /\ last.arg = <<DefaultFODOCellParams, 4>>
    /\ Len(TheLattice.m_components) = 16
    /\ computeLattice(TheLattice, components).a.m_totalLength = 4000

----------------------------------------------------------------------------
(* Properties of the field manager.                                        *)

\* the registered sources that are enabled and contain pos, in order
C14_Contributing(pos) ==
    SelectSeq(TheManager,
              LAMBDA i : sources[i].enabled /\ FieldSource_isInside(sources[i], pos))

\* the sum over the sequence of sources, as a sum of reals
C14_Sum(seq, pos) ==
    LET v == [k \in 1..Len(seq) |-> FieldSource_evaluate(sources[seq[k]], pos, 0)]
    IN  FieldValue([j \in 1..3 |-> SumSeq([k \in 1..Len(seq) |-> v[k].E[j]])],
                   [j \in 1..3 |-> SumSeq([k \in 1..Len(seq) |-> v[k].B[j]])])

\* the largest magnitude a partial sum can have, in any order
C14_Magnitude(seq, pos) ==
    LET v == [k \in 1..Len(seq) |-> FieldSource_evaluate(sources[seq[k]], pos, 0)]
    IN  SumSeq([k \in 1..Len(seq) |->
                   SumSeq([j \in 1..3 |-> Abs(v[k].E[j]) + Abs(v[k].B[j])])])

\* the results of evaluate for the registered sources in every order
C14_InAnyOrder(pos) ==
    {EMFieldManager_evaluate(sources, [k \in 1..Len(TheManager) |-> TheManager[f[k]]], pos, 0)
        : f \in Permutations(1..Len(TheManager))}

\* C14 as stated: evaluate is the sum of evaluate over the sources that are
\* enabled and contain the position, zero when there is none, and the same
\* in whatever order the sources were added.
C14_OrderIndependentSum ==
    \A pos \in PositionInputs :
        LET ev == EMFieldManager_evaluate(sources, TheManager, pos, 0)
        IN  /\ ev = C14_Sum(C14_Contributing(pos), pos)
            /\ C14_InAnyOrder(pos) = {ev}

\* C14, amended: evaluate adds up, from zero and in the order of
\* registration, with the rounding of double addition, the values of exactly
\* the registered sources that are enabled and contain the position; it is
\* zero when there is none.  It is the sum of these values and the same in
\* every order of registration whenever no partial sum can leave the range
\* in which the sums are exact, and the same in every order whenever at most
\* two sources contribute.  addSource(null) leaves the manager unchanged.
C14_SumInRegistrationOrder ==
    /\ [](\A pos \in PositionInputs :
            LET ev == EMFieldManager_evaluate(sources, TheManager, pos, 0)
                contributing == C14_Contributing(pos)
            IN  /\ ev = EMFieldManager_evaluate(sources, contributing, pos, 0)
                /\ contributing = <<>> => ev = ZeroField
                /\ Len(contributing) = 1 => ev = C14_Sum(contributing, pos)
                /\ Len(contributing) <= 2 => C14_InAnyOrder(pos) = {ev}
                /\ C14_Magnitude(contributing, pos) <= 2 ^ MantissaBits =>
                       /\ ev = C14_Sum(contributing, pos)
                       /\ C14_InAnyOrder(pos) = {ev})
    /\ [][last'.op = "addSource" /\ last'.arg[1] = Null =>
              engine' = engine /\ sources' = sources]_vars

\* evaluate has answered for a manager of three sources of which one is
\* disabled and two contribute at the position
C14_Witness ==
    /\ last.op = "evaluate"
    /\ Len(TheManager) = 3
    /\ \E i \in 1..3 : ~sources[TheManager[i]].enabled
    /\ Len(C14_Contributing(last.arg[1])) = 2
    /\ last.obs.result = C14_Sum(C14_Contributing(last.arg[1]), last.arg[1])
    /\ last.obs.result # ZeroField

----------------------------------------------------------------------------
(* Properties of the ensemble.                                             *)

\* what applyAperture(radius) on system 1 did to the particle at index k,
\* given which particles it was to deactivate
C15_Effect(k, radius, outside) ==
    LET before == systems[1].m_particles[k]
        after == systems'[1].m_particles[k]
    IN  /\ after.pos = before.pos /\ after.mom = before.mom
        /\ after.active = (before.active /\ ~outside)
        /\ ~(before.active /\ outside) => after = before

\* the particles that went from active to inactive in the call
C15_NewlyInactive ==
    {k \in 1..Len(systems[1].m_particles) :
        systems[1].m_particles[k].active /\ ~systems'[1].m_particles[k].active}

\* C15 as stated: applyAperture(r) deactivates exactly the active particles
\* with x^2 + y^2 > r^2, changes nothing else and returns the number of
\* particles it deactivated.
C15_ApertureBySquares ==
    [][last'.op = "applyAperture" =>
        LET r == last'.arg[2]
        IN  /\ Len(systems'[1].m_particles) = Len(systems[1].m_particles)
            /\ \A k \in 1..Len(systems[1].m_particles) :
                   LET pos == systems[1].m_particles[k].pos
                   IN  C15_Effect(k, r, pos[1] * pos[1] + pos[2] * pos[2] > r * r)
            /\ last'.obs.result = Cardinality(C15_NewlyInactive)
    ]_vars

\* C15, amended: applyAperture(r) deactivates exactly the active particles
\* with sqrt(x^2 + y^2) > r, which for r >= 0 are those with x^2 + y^2 > r^2
\* and for r < 0 all of them; it leaves every other particle unchanged,
\* changes no position or momentum, keeps the particles and their order,
\* and returns the number of particles that went from active to inactive,
\* so that the same call made again returns 0 and changes nothing.
C15_ApertureByRadius ==
    [][last'.op = "applyAperture" =>
        LET r == last'.arg[2]
            again == applyAperture(systems'[1], r)
        IN  /\ Len(systems'[1].m_particles) = Len(systems[1].m_particles)
            /\ \A k \in 1..Len(systems[1].m_particles) :
                   LET pos == systems[1].m_particles[k].pos
                   IN  C15_Effect(k, r, r < 0 \/ pos[1] * pos[1] + pos[2] * pos[2] > r * r)
            /\ last'.obs.result = Cardinality(C15_NewlyInactive)
            /\ again.lostCount = 0
            /\ again.ps = systems'[1]
    ]_vars

\* a call with a radius that is not negative has deactivated one of three
\* particles, kept one active and found one inactive already
C15_Witness ==
    /\ last.op = "applyAperture"
    /\ last.arg[2] >= 0
    /\ last.obs.result = 1
    /\ Len(systems[1].m_particles) = 3
    /\ Len(ActiveOf(systems[1].m_particles)) = 1

\* the positions and momenta of the particles, in order
C16_Coordinates(ps) == [k \in 1..Len(ps) |-> <<ps[k].pos, ps[k].mom>>]

\* C16: generateBeam(params) leaves in the system exactly params.numParticles
\* particles, all active, whose positions and momenta are, particle by
\* particle and in order, those that a newly constructed ParticleSystem
\* generates from the same parameters: they depend neither on what the
\* system held, nor on the state of its generator, nor on the particles made
\* before, so that any two calls with the same parameters and seed, on the
\* same system or on different ones, produce identical beams.
C16_BeamIsReproducible ==
    [][last'.op = "generateBeam" =>
        LET params == last'.arg[2]
            beam == systems'[last'.arg[1]].m_particles
            fresh == generateBeam(NewParticleSystem, params, 0).ps.m_particles
        IN  /\ Len(beam) = params.numParticles
            /\ \A k \in 1..Len(beam) : beam[k].active
            /\ C16_Coordinates(beam) = C16_Coordinates(fresh)
    ]_vars

\* the second system has been given the beam the first one holds, two
\* different particles, by a later call that handed out later ids
C16_Witness ==
    /\ last.op = "generateBeam"
    /\ last.arg[1] = 2
    /\ Len(systems[2].m_particles) = 2
    /\ C16_Coordinates(systems[2].m_particles) = C16_Coordinates(systems[1].m_particles)
    /\ systems[2].m_particles[1].id > systems[1].m_particles[2].id + 1
    /\ systems[2].m_particles[1].pos # systems[2].m_particles[2].pos

----------------------------------------------------------------------------
(* Properties of the integration of lost particles.                        *)

RECURSIVE C17_Track(_, _)
\* the particle after each of the pushes, from p on
C17_Track(p, pushes) ==
    IF pushes = <<>> THEN <<>>
    ELSE LET q == IntegratorStep(engine.m_integrator, p, sources, engine.m_fieldManager,
                                 Head(pushes).time, Head(pushes).dt)
         IN  <<q>> \o C17_Track(q, Tail(pushes))

\* C17: the step() of each integrator leaves an inactive particle as it is,
\* and step() and update() of the engine leave every particle that is
\* inactive as it is and hand it to no integrator; a particle lost in a
\* sub-step was pushed in that sub-step for the last time, so that it stays
\* where it was lost through the remaining sub-steps of the call and
\* through every later call.
C17_InactiveIsFrozen ==
    /\ [](\A k \in 1..Len(engine.m_particles), kind \in IntegratorTypes, dt \in {1, 2} :
            LET p == [engine.m_particles[k] EXCEPT !.active = FALSE]
            IN  IntegratorStep(kind, p, sources, engine.m_fieldManager,
                               engine.m_currentTime, dt) = p)
    /\ [][last'.op \in {"step", "update"} =>
            \A k \in 1..Len(engine.m_particles) :
                LET p == engine.m_particles[k]
                    q == engine'.m_particles[k]
                    mine == SelectSeq(last'.obs.pushes, LAMBDA c : c.id = p.id)
                    track == C17_Track(p, mine)
                IN  /\ ~p.active => q = p /\ mine = <<>>
                    /\ p.active /\ mine # <<>> =>
                           /\ q.pos = track[Len(track)].pos
                           /\ q.mom = track[Len(track)].mom
                           /\ \A n \in 1..(Len(track) - 1) : ~C7_Outside(track[n].pos)
                    /\ p.active /\ ~q.active =>
                           mine # <<>> /\ C7_Outside(track[Len(track)].pos)
      ]_vars

\* an update of two sub-steps has lost a particle in the first: it was
\* pushed once, to x = 11, and is there, while the other was pushed twice
C17_Witness ==
    /\ last.op = "update"
    /\ Len(last.obs.iters) = 2
    /\ \E k, m \in 1..Len(engine.m_particles) :
          /\ ~engine.m_particles[k].active
          /\ engine.m_particles[k].pos[1] = 11
          /\ Len(SelectSeq(last.obs.pushes,
                           LAMBDA c : c.id = engine.m_particles[k].id)) = 1
          /\ engine.m_particles[m].active
          /\ Len(SelectSeq(last.obs.pushes,
                           LAMBDA c : c.id = engine.m_particles[m].id)) = 2

----------------------------------------------------------------------------
(* Properties of the configuration.                                        *)

\* C18: a load() that returns false, because the file cannot be opened or
\* its text cannot be parsed or converted, leaves the configuration as it
\* was: the simulation, window and render sections are the ones held before
\* the call.
C18_FailedLoadKeepsConfig ==
    [][last'.op = "load" /\ ~last'.obs.result => config' = config]_vars

----------------------------------------------------------------------------
(* Properties of the particle ids.                                         *)

\* C19: the ids handed out are below the counter, which never decreases,
\* and no two particles stored in an ensemble carry the same id, whatever
\* generateBeam and addParticle calls filled it.
C19_IdsUnique ==
    \A i \in 1..Len(systems) :
        LET ps == systems[i].m_particles
        IN  /\ \A k \in 1..Len(ps) : ps[k].id < s_nextId
            /\ \A k, m \in 1..Len(ps) : k # m => ps[k].id # ps[m].id

----------------------------------------------------------------------------
(* Properties of the lattice operations that find nothing.                 *)

\* no component of the lattice has the name
C20_NoMatch(name) ==
    \A i \in 1..Len(TheLattice.m_components) :
        components[TheLattice.m_components[i]].name # name

\* C20: removeComponent(name) with a name no component has,
\* removeComponent(index) with index >= count and insertComponent(index, c)
\* with index > count leave the lattice, with its sequence of components,
\* its total length and the s-positions of the components, as it was;
\* getComponent(name) with such a name and getComponent(index) with
\* index >= count return null and change nothing.
C20_NoMatchIsNoOp ==
    [][LET count == Len(TheLattice.m_components)
           same == accelerators' = accelerators /\ components' = components
       IN  /\ last'.op = "removeComponentNamed" /\ C20_NoMatch(last'.arg[1]) => same
           /\ last'.op = "removeComponent" /\ last'.arg[1] >= count => same
           /\ last'.op = "insertComponent" /\ last'.arg[1] > count => same
           /\ last'.op = "getComponentNamed" /\ C20_NoMatch(last'.arg[1]) =>
                  same /\ last'.obs.result = Null
           /\ last'.op = "getComponent" /\ last'.arg[1] >= count =>
                  same /\ last'.obs.result = Null
    ]_vars

\* a component was to be inserted beyond the end of a lattice of two
\* components with computed s-positions, which is as it was
C20_Witness ==
    /\ last.op = "insertComponent"
    /\ last.arg[1] = 3
    /\ last.arg[2] # Null
    /\ Len(TheLattice.m_components) = 2
    /\ TheLattice.m_totalLength = 5
    /\ components[TheLattice.m_components[2]].sPosition > 0

----------------------------------------------------------------------------
(* The default beam of the engine and the statistics specification: the    *)
(* controller with one lattice, its states, its steps and frames, and the  *)
(* default beam generated into its ensemble.                               *)

\* initializeDefaultBeam(): [e, nextId] afterwards.  The engine's ensemble
\* is replaced by the beam generateBeam builds from the parameters of the
\* default beam; m_stats is not written.
initializeDefaultBeam(e, nextId) ==
    LET r == generateBeam([NewParticleSystem EXCEPT !.m_particles = e.m_particles],
                          DefaultBeamParameters, nextId)
    IN  [e |-> [e EXCEPT !.m_particles = r.ps.m_particles], nextId |-> r.nextId]

InitializeDefaultBeam ==
    /\ s_nextId + DefaultBeamParameters.numParticles + 1 <= MaxBeamIds
    /\ LET r == initializeDefaultBeam(engine, s_nextId)
       IN  /\ engine' = r.e
           /\ s_nextId' = r.nextId
    /\ last' = [op |-> "initializeDefaultBeam", arg |-> Null, obs |-> Obs0]
    /\ UNCHANGED <<accelerators, components, sources, systems, config, particle>>

NextStats ==
    \/ Start
    \/ Stop
    \/ Pause
    \/ Resume
    \/ Reset
    \/ Step
    \/ \E deltaTime \in {1} : Update(deltaTime)
    \/ \E acc \in {1} : SetAccelerator(acc)
    \/ InitializeDefaultBeam

SpecStats == InitEngine /\ [][NextStats]_vars

----------------------------------------------------------------------------
(* C21: an unknown integrator kind falls back to Boris and a warning is    *)
(* surfaced.  IntegratorFactory::create with an unrecognised name or a     *)
(* type outside the enumeration yields Boris, and after setIntegrator or   *)
(* applyToEngine passed such a value the engine steps with Boris, reports  *)
(* Boris as its integrator kind, and a warning was logged by the call.     *)

C21_Unknown(type) == type \notin IntegratorTypes

C21_FactoryFallsBack ==
    /\ \A name \in IntegratorNames :
          name \notin {"Euler", "Verlet", "VelocityVerlet", "RK4"}
              => IntegratorFactory_createByName(name) = "Boris"
    /\ \A n \in -1..7 :
          C21_Unknown(Type_cast(n)) => IntegratorFactory_create(Type_cast(n)) = "Boris"

C21_UnknownKindIsBoris ==
    [][(/\ last'.op \in {"setIntegrator", "applyToEngine"}
        /\ C21_Unknown(last'.arg))
          => /\ C21_FactoryFallsBack
             /\ engine'.m_integrator = "Boris"
             /\ engine'.m_integratorType = "Boris"
             /\ \E i \in DOMAIN last'.obs.log : last'.obs.log[i] = "warn"]_vars

\* what the code does establish: the engine steps with Boris, the kind it
\* reports is the value passed, and the call logs at debug level only
C21_UnknownKindStepsWithBoris ==
    [][(/\ last'.op \in {"setIntegrator", "applyToEngine"}
        /\ C21_Unknown(last'.arg))
          => /\ C21_FactoryFallsBack
             /\ engine'.m_integrator = "Boris"
             /\ engine'.m_integratorType = last'.arg
             /\ last'.obs.log = <<"debug">>]_vars

C21_Witness ==
    /\ last.op = "applyToEngine"
    /\ C21_Unknown(last.arg)
    /\ engine.m_integrator = "Boris"
----------------------------------------------------------------------------
(* C22: after any particle mutator (setMomentum, setPx/setPy/setPz,        *)
(* setVelocity, setKineticEnergy) the particle has gamma >= 1,             *)
(* 0 <= beta < 1 and |v| < c; and setVelocity with a requested |v| >= c    *)
(* stores the velocity of magnitude 0.999999 c in the requested direction, *)
(* with gamma, beta and the momentum recomputed from it.                   *)

C22_Subluminal(p) ==
    LET v2 == Length2(getVelocity(p))
    IN  /\ RealGeq(p.m_gamma, RatOne)
        /\ RealGeq(p.m_beta, RatZero)
        /\ RealLess(p.m_beta, RatOne)
        /\ ~v2.nan
        /\ RatLess(v2.sq, RatOne)

C22_Mutators == {"setMomentum", "setP", "setVelocity", "setKineticEnergy"}

\* the velocity stored is the requested one scaled to the magnitude of the
\* clamp, and gamma, beta and the momentum are those of that velocity
C22_Clamped(p, velocity) ==
    LET v == getVelocity(p)
        speed2 == Length2(velocity).sq
    IN  /\ Length2(v) = [nan |-> FALSE, sq |-> RatMul(ClampFactor, ClampFactor)]
        /\ \A i \in 1..3 :
              /\ v[i].sign = velocity[i].sign
              /\ RatMul(v[i].sq, speed2) = RatMul(velocity[i].sq, Length2(v).sq)
        /\ p.m_beta = FromRat(ClampFactor)
        /\ p.m_gamma = gammaFromBeta(p.m_beta)
        /\ p.m_momentum = ScaleBy(v, 1, p.m_gamma.sq)

C22_MutatorsKeepSubluminal ==
    [][/\ last'.op \in C22_Mutators => C22_Subluminal(particle'.p)
       /\ (/\ last'.op = "setVelocity"
           /\ ~RatLess(Length2(last'.arg).sq, RatOne))
             => C22_Clamped(particle'.p, last'.arg)]_vars

\* the same for every call but setKineticEnergy with a negative energy, on a
\* particle no such call has been made on
C22_NonNegativeEnergyKeepsSubluminal ==
    [][(/\ C22_Subluminal(particle.p)
        /\ ~(last'.op = "setKineticEnergy" /\ last'.arg[1][1] < 0))
          => /\ last'.op \in C22_Mutators => C22_Subluminal(particle'.p)
             /\ (/\ last'.op = "setVelocity"
                 /\ ~RatLess(Length2(last'.arg).sq, RatOne))
                   => C22_Clamped(particle'.p, last'.arg)]_vars

C22_Witness ==
    /\ last.op = "setVelocity"
    /\ ~RatLess(Length2(last.arg).sq, RatOne)
    /\ C22_Clamped(particle.p, last.arg)

C22_NegativeEnergy ==
    /\ last.op = "setKineticEnergy"
    /\ last.arg[1][1] < 0
    /\ particle.p.m_beta.nan
----------------------------------------------------------------------------
(* C23: if an update() executed M sub-steps and the accumulator that       *)
(* remains is above dt, the accumulator is set to 0 (otherwise it is left  *)
(* as the loop left it); and after every update() made while Running with  *)
(* a wall time >= 0 and dt > 0 the accumulator is within 0 .. dt.          *)

\* the accumulator after the update() that last' records, given the range it
\* is claimed to be in when `nonNegativeBefore` holds of the call
C23_Accumulator(nonNegativeBefore) ==
    LET exit == last'.obs.exit
        dt == engine.m_timeStep
        M == engine.m_maxStepsPerFrame
    IN  /\ engine'.m_accumulatedTime =
              IF exit.n = M /\ exit.acc > dt THEN 0 ELSE exit.acc
        /\ (last'.arg >= 0 /\ dt > 0 /\ nonNegativeBefore)
              => /\ 0 <= engine'.m_accumulatedTime
                 /\ engine'.m_accumulatedTime <= dt

\* as claimed: for every update() with a wall time >= 0 and dt > 0
C23_AccumulatorWithinStep ==
    [][last'.op = "update" /\ engine.m_state = "Running" => C23_Accumulator(TRUE)]_vars

\* for the calls entered with an accumulator >= 0; and the accumulator is
\* at most dt after every update() with dt > 0
C23_AccumulatorWithinStepFromNonNegative ==
    [][last'.op = "update" /\ engine.m_state = "Running" =>
          /\ C23_Accumulator(engine.m_accumulatedTime >= 0)
          /\ engine.m_timeStep > 0
                => engine'.m_accumulatedTime <= engine.m_timeStep]_vars

\* an update() executed M >= 1 sub-steps, was left with more than dt and
\* dropped it
C23_Witness ==
    /\ last.op = "update"
    /\ last.arg >= 0
    /\ engine.m_timeStep > 0
    /\ Len(last.obs.iters) >= 1
    /\ last.obs.exit.n = engine.m_maxStepsPerFrame
    /\ last.obs.exit.acc > engine.m_timeStep
    /\ engine.m_accumulatedTime = 0
----------------------------------------------------------------------------
(* C24: stop() is cooperative.  When the loss callback calls stop() or     *)
(* pause() while update() drains the accumulator, the sub-step in flight   *)
(* completes and the remaining sub-steps of that update() are executed as  *)
(* they would have been without the call: the loop ends only on            *)
(* accumulator < dt or on the cap.  The update() calls that follow execute *)
(* no sub-step.                                                            *)

C24_StopIsCooperative ==
    [][last'.op = "update" =>
          LET iters == last'.obs.iters
              exit == last'.obs.exit
              dt == engine.m_timeStep
              M == engine.m_maxStepsPerFrame
          IN  IF engine.m_state = "Running"
              THEN /\ exit.n = Len(iters)
                   /\ exit.acc = engine.m_accumulatedTime
                                    + last'.arg * engine.m_timeScale - Len(iters) * dt
                   /\ ~(exit.acc >= dt /\ exit.n < M)
                   /\ engine'.m_stats.stepCount = engine.m_stats.stepCount + Len(iters)
                   /\ engine'.m_currentTime = engine.m_currentTime + Len(iters) * dt
                   /\ (last'.obs.losses # <<>> /\ engine.m_lossCallback = "stop")
                         => engine'.m_state = "Stopped"
                   /\ (last'.obs.losses # <<>> /\ engine.m_lossCallback = "pause")
                         => engine'.m_state = "Paused"
              ELSE /\ iters = <<>>
                   /\ engine' = engine]_vars

\* an update() of two sub-steps whose first sub-step lost a particle: the
\* callback stopped or paused the engine, and the second sub-step was
\* executed all the same (the lost particle was pushed once, in the first)
C24_Witness ==
    /\ last.op = "update"
    /\ Len(last.obs.iters) = 2
    /\ engine.m_state \in {"Stopped", "Paused"}
    /\ \E k \in DOMAIN last.obs.losses :
          Cardinality({j \in DOMAIN last.obs.pushes :
                          last.obs.pushes[j].id = last.obs.losses[k].args[1].id}) = 1
----------------------------------------------------------------------------
(* C25: after a component's strength is changed (setField, setGradient,    *)
(* setVoltage, setFrequency, setPhase) on a lattice bound to the engine,   *)
(* the field manager's references are refreshed, so that the next sub-step *)
(* evaluates that component's field with the new parameters: whenever a    *)
(* sub-step is executed, the manager holds, for every magnet and cavity of *)
(* the bound lattice, a source carrying the component's current            *)
(* parameters.                                                             *)

\* the manager holds a source built from the current parameters of component id
C25_ManagerIsCurrent(e, comps, srcs, id) ==
    \E i \in DOMAIN e.m_fieldManager :
        srcs[e.m_fieldManager[i]] = BuildFieldSource(comps[id])

C25_BoundLattice == accelerators[engine.m_accelerator].m_components

C25_SubStepUsesCurrentParameters ==
    [][(/\ last'.op = "step"
        /\ engine'.m_stats.stepCount > engine.m_stats.stepCount
        /\ engine.m_accelerator # Null)
          => \A k \in DOMAIN C25_BoundLattice :
                HasField(components[C25_BoundLattice[k]])
                    => C25_ManagerIsCurrent(engine, components, sources,
                                            C25_BoundLattice[k])]_vars

\* what the code establishes: the manager is current when the lattice is
\* bound, and a mutator leaves the manager and its sources as they are
C25_ManagerKeepsOldSource ==
    [][/\ (last'.op = "setAccelerator" /\ engine'.m_accelerator # Null)
            => \A k \in DOMAIN accelerators[engine'.m_accelerator].m_components :
                  LET id == accelerators[engine'.m_accelerator].m_components[k]
                  IN  HasField(components'[id])
                          => C25_ManagerIsCurrent(engine', components', sources', id)
       /\ last'.op = "setParameter"
            => /\ engine'.m_fieldManager = engine.m_fieldManager
               /\ sources' = sources]_vars

\* a sub-step was executed with a source of the old gradient in the manager
C25_StaleStep ==
    /\ last.op = "step"
    /\ engine.m_accelerator = 1
    /\ components[2].strength = 2
    /\ \E i \in DOMAIN engine.m_fieldManager :
          /\ sources[engine.m_fieldManager[i]].kind = "Quadrupole"
          /\ sources[engine.m_fieldManager[i]].gradient = 1

----------------------------------------------------------------------------
(* C26: a magnet or cavity caches its field source lazily.  Repeated       *)
(* getFieldSource() calls with no mutation in between return the same      *)
(* source object; every parameter mutator invalidates the cache; the first *)
(* getFieldSource() after a mutation returns a newly built source carrying *)
(* the component's current parameters, while a source handed out earlier   *)
(* keeps the old ones.                                                     *)

C26_CacheIsCurrent ==
    \A id \in DOMAIN components :
        components[id].fieldSource # Null
            => /\ components[id].fieldSource \in DOMAIN sources
               /\ sources[components[id].fieldSource] = BuildFieldSource(components[id])

C26_LazyFieldSource ==
    /\ []C26_CacheIsCurrent
    /\ [][/\ (last'.op = "getFieldSource" /\ HasField(components[last'.arg]))
               => LET c == components[last'.arg]
                      src == last'.obs.result
                  IN  /\ components'[last'.arg] = [c EXCEPT !.fieldSource = src]
                      /\ SubSeq(sources', 1, Len(sources)) = sources
                      /\ IF c.fieldSource # Null
                         THEN src = c.fieldSource /\ sources' = sources
                         ELSE /\ src = Len(sources) + 1
                              /\ Len(sources') = src
                              /\ sources'[src] = BuildFieldSource(c)
          /\ last'.op = "setParameter"
               => /\ components'[last'.arg[1]].fieldSource = Null
                  /\ components'[last'.arg[1]][last'.arg[2]] = last'.arg[3]
                  /\ sources' = sources]_vars

\* getFieldSource() built a source for a component of which an earlier
\* source, with other parameters, is still on the heap
C26_Witness ==
    /\ last.op = "getFieldSource"
    /\ last.obs.result = Len(sources)
    /\ \E k \in 1..(Len(sources) - 1) :
          /\ sources[k].kind = sources[last.obs.result].kind
          /\ sources[k] # sources[last.obs.result]
----------------------------------------------------------------------------
(* C27: addComponent, insertComponent and removeComponent (by index and by *)
(* name) do not recompute the lattice: the s-position of every component   *)
(* and the stored total length are after the call what they were before    *)
(* it, so a component added after computeLattice() keeps the s-position it *)
(* was constructed with, 0, and getTotalLength() does not include it.      *)

C27_Edits == {"addComponent", "insertComponent", "removeComponent", "removeComponentNamed"}

C27_EditsLeaveLatticeStale ==
    [][last'.op \in C27_Edits =>
          /\ \A id \in DOMAIN components :
                components'[id].sPosition = components[id].sPosition
          /\ TheLattice'.m_totalLength = TheLattice.m_totalLength
          /\ TheLattice'.m_latticeType = TheLattice.m_latticeType]_vars

\* a component never placed before was added to a computed lattice of
\* positive length: its s-position is 0 and the total length is short of
\* the sum of the lengths by the length of that component
C27_Witness ==
    /\ last.op = "addComponent"
    /\ Len(TheLattice.m_components) = 2
    /\ TheLattice.m_totalLength > 0
    /\ components[TheLattice.m_components[2]].sPosition = 0
    /\ components[TheLattice.m_components[1]].length = TheLattice.m_totalLength
    /\ TheLattice.m_components[1] # TheLattice.m_components[2]
----------------------------------------------------------------------------
(* C28: in computeStatistics the emittance averages <x^2>, <x'^2> and      *)
(* <x x'> (and those of y) are averages over the contributors: an active   *)
(* particle skipped for |p_z| < 1e-30 adds nothing to the sums and is not  *)
(* counted in the divisor, so each sum is divided by the number of         *)
(* contributing particles.                                                 *)

C28_Contributors(ps) == SelectSeq(ActiveOf(ps), HasSlope)

\* the plane's averages and emittance of the result are those with the
\* sums over the active particles divided by `divisor`
C28_AveragedOver(result, ps, divisor) ==
    /\ result.x = PlaneEmittance(ActiveOf(ps), 1, divisor)
    /\ result.y = PlaneEmittance(ActiveOf(ps), 2, divisor)

C28_AveragesOverContributors ==
    [][(/\ last'.op = "computeStatistics"
        /\ C28_Contributors(systems[1].m_particles) # <<>>)
          => C28_AveragedOver(last'.obs.stats, systems[1].m_particles,
                              Len(C28_Contributors(systems[1].m_particles)))]_vars

\* what the code computes: the sums are those of the contributors, the
\* divisor is the number of active particles
C28_AveragesOverActive ==
    [][(/\ last'.op = "computeStatistics"
        /\ ActiveOf(systems[1].m_particles) # <<>>)
          => /\ C28_AveragedOver(last'.obs.stats, systems[1].m_particles,
                                 Len(ActiveOf(systems[1].m_particles)))
             /\ \A axis \in {1, 2} :
                   EmittanceSums(ActiveOf(systems[1].m_particles),
                                 Rat(SumPosition(ActiveOf(systems[1].m_particles), axis),
                                     Len(ActiveOf(systems[1].m_particles))), axis)
                   = EmittanceSums(C28_Contributors(systems[1].m_particles),
                                   Rat(SumPosition(ActiveOf(systems[1].m_particles), axis),
                                       Len(ActiveOf(systems[1].m_particles))), axis)]_vars

\* statistics of an ensemble with a skipped active particle and an
\* emittance that is not 0
C28_SkippedParticle ==
    /\ last.op = "computeStatistics"
    /\ Len(C28_Contributors(systems[1].m_particles)) < Len(ActiveOf(systems[1].m_particles))
    /\ last.obs.stats.x.emittance2 # RatZero
----------------------------------------------------------------------------
(* C29: simulated time is conserved by the fixed-step accumulator.         *)
(* Starting from reset(), with dt > 0 and time advanced only through       *)
(* update(), every update() made while Running that does not hit the cap   *)
(* adds the time scale times its wall time to simulationTime +             *)
(* accumulator, and no other call changes that sum, so that it equals the  *)
(* time scale times the sum of the wall times; and simulationTime equals   *)
(* stepCount x dt.                                                         *)

C29_Total(e) == e.m_stats.simulationTime + e.m_accumulatedTime

C29_Restarts == last'.op = "reset" \/ (last'.op = "start" /\ engine.m_state = "Stopped")

\* the sum grows by the scaled wall time of every update() made while
\* Running below the cap, starts at 0 and is left alone by the other calls;
\* the sub-steps of an update() advance the time by dt each
C29_SumIsConserved ==
    [][/\ (/\ last'.op = "update"
           /\ engine.m_state = "Running"
           /\ engine.m_timeStep > 0
           /\ last'.obs.exit.n < engine.m_maxStepsPerFrame)
             => /\ C29_Total(engine') = C29_Total(engine) + engine.m_timeScale * last'.arg
                /\ engine'.m_stats.simulationTime - engine.m_stats.simulationTime
                     = (engine'.m_stats.stepCount - engine.m_stats.stepCount)
                           * engine.m_timeStep
                /\ engine'.m_currentTime = engine'.m_stats.simulationTime
       /\ C29_Restarts
             => /\ C29_Total(engine') = 0
                /\ engine'.m_stats.stepCount = 0
       /\ (~C29_Restarts /\ ~(last'.op = "update" /\ engine.m_state = "Running"))
             => /\ C29_Total(engine') = C29_Total(engine)
                /\ engine'.m_stats.simulationTime = engine.m_stats.simulationTime
                /\ engine'.m_stats.stepCount = engine.m_stats.stepCount]_vars

\* as claimed: simulationTime is stepCount x dt whenever dt > 0
C29_TimeMatchesSteps ==
    engine.m_timeStep > 0
        => engine.m_stats.simulationTime = engine.m_stats.stepCount * engine.m_timeStep

C29_TimeIsStepsTimesStep == []C29_TimeMatchesSteps /\ C29_SumIsConserved

\* simulationTime is stepCount x dt when every sub-step since the last
\* reset() was made with the dt of now; setTimeStep changes dt and leaves
\* simulationTime and stepCount as they are
C29_StepsTimesStep(e) == e.m_stats.simulationTime = e.m_stats.stepCount * e.m_timeStep

C29_TimeIsStepsTimesUnchangedStep ==
    /\ C29_SumIsConserved
    /\ [][/\ (/\ C29_StepsTimesStep(engine)
              /\ engine'.m_timeStep = engine.m_timeStep
              /\ engine.m_timeStep > 0) => C29_StepsTimesStep(engine')
          /\ C29_Restarts => C29_StepsTimesStep(engine')]_vars

\* an update() below the cap executed a sub-step and left a part of a time
\* step in the accumulator
C29_Witness ==
    /\ last.op = "update"
    /\ Len(last.obs.iters) >= 1
    /\ last.obs.exit.n < engine.m_maxStepsPerFrame
    /\ engine.m_accumulatedTime > 0
    /\ engine.m_stats.simulationTime = engine.m_stats.stepCount * engine.m_timeStep

----------------------------------------------------------------------------
(* C30: the published statistics add up to the ensemble.  Immediately      *)
(* after an update() made while Running, m_stats.particleCount plus        *)
(* m_stats.lostParticleCount is the number of particles in the ensemble.   *)

C30_AddsUp(e) ==
    e.m_stats.particleCount + e.m_stats.lostParticleCount = Len(e.m_particles)

C30_StatsAddUpToEnsemble ==
    [][last'.op = "update" /\ engine.m_state = "Running" => C30_AddsUp(engine')]_vars

\* the losses counted are the inactive particles of the ensemble
C30_LossesAreInEnsemble(e) ==
    e.m_stats.lostParticleCount = Len(e.m_particles) - getActiveParticleCount(e.m_particles)

C30_EngineCalls == {"start", "stop", "pause", "resume", "reset", "step", "update"}

\* The losses counted are the inactive particles of the ensemble when the
\* engine is constructed, every call on the engine keeps them so, the
\* default beam generated while no loss is counted keeps them so, and an
\* update() made while Running in such a state publishes counts that add
\* up to the ensemble.
C30_StatsAddUpWhenBeamFollowsReset ==
    [][/\ last'.op \in C30_EngineCalls /\ C30_LossesAreInEnsemble(engine)
          => C30_LossesAreInEnsemble(engine')
       /\ last'.op = "initializeDefaultBeam" /\ engine.m_stats.lostParticleCount = 0
          => C30_LossesAreInEnsemble(engine')
       /\ last'.op = "update" /\ engine.m_state = "Running"
            /\ C30_LossesAreInEnsemble(engine)
          => C30_AddsUp(engine')]_vars

\* an update() made while Running that counts a loss of the default beam
C30_Witness ==
    /\ last.op = "update"
    /\ engine.m_stats.lostParticleCount > 0
    /\ engine.m_stats.particleCount > 0
    /\ C30_AddsUp(engine)

====
